---------------------------- MODULE Spec2Model ----------------------------
(***************************************************************************)
(* A model of the agent orchestration core of agumabanks/sai:              *)
(*   router/message_router.py   MessageRouter                              *)
(*   agents/llm_brain.py        LLMBrain                                   *)
(*   memory/context.py          ContextAssembler                           *)
(*   database.py                AuditLog, Conversation, LLMUsage           *)
(*                                                                         *)
(* Texts are sequences of one-character strings.  Indices into a text are  *)
(* 0-based wherever the Python code computes with them (rfind, slices),    *)
(* and are converted at the point where the TLA+ sequence is read.         *)
(***************************************************************************)
EXTENDS Integers, Sequences, FiniteSets, TLC

VARIABLES
    \* ---- MessageRouter and LLMBrain (Spec)
    settings,       \* which provider keys are configured (config.Settings)
    channels,       \* MessageRouter.channels: the registered channel ids
    connected,      \* what each adapter's is_connected() returns
    allowed_senders,\* MessageRouter._allowed_senders
    conversations,  \* the conversations table, in insertion order
    audit_log,      \* the audit_log table
    llm_usage,      \* the llm_usage table
    sent,           \* the send_response calls completed, in order
    req,            \* the route() tasks: position and locals of each
    routes,         \* how many route() calls have started
    tasks,          \* the tasks that may run route() in this behaviour
    budget,         \* route() calls and failing awaits left in this behaviour
    \* ---- _split_at_boundaries, one run of its loop (SpecSplit)
    sp_orig,        \* the text the function was called with
    sp_max,         \* max_length
    sp_text,        \* the local variable text (what is left to split)
    sp_chunks,      \* the local variable chunks
    sp_seps,        \* the separator each loop iteration split at
    sp_pc,          \* "loop" | "done" | "off"
    \* ---- ContextAssembler.assemble, one call (SpecAssemble)
    as_max,         \* self.max_tokens
    as_user,        \* the argument user_message
    as_session,     \* the argument session_id
    as_messages,    \* the local variable messages
    as_budget,      \* the local variable budget_remaining
    as_history,     \* the local variable history (what _get_history returned)
    as_pc,          \* "call" | "memory" | "knowledge" | "history" | "done"
    \* MemoryManager._rrf_merge, one call
    mg_vector,      \* parameter vector_results
    mg_fts,         \* parameter fts_results
    mg_merged,      \* the returned list
    mg_pc,          \* "call" | "done"
    \* MemoryManager and its table
    agent_memory,   \* the rows of table agent_memory, in id order
    mem_next_id,    \* the next value of the id sequence
    now,            \* NOW(), in days
    has_vectors,    \* MemoryManager.has_vectors
    mem_call,       \* per caller: the call in progress and its locals
    mem_budget,     \* [ops, faults]: calls and failures still to come
    \* ---- LLMBrain._determine_tier, one call (SpecTier)
    td_prompt,      \* the argument prompt
    td_complexity,  \* the argument complexity
    td_tier,        \* the returned tier
    td_pc,          \* "call" | "done" | "off"
    \* ---- LLMBrain.execute_plan, one call (SpecPlan)
    ep_plan,        \* the argument plan
    ep_i,           \* the position of the for loop in plan (1-based)
    ep_pc,          \* the await execute_plan is suspended in
    ep_cmd,         \* the local variable actual_cmd
    ep_exhausted,   \* whether think() returned the unavailability text
    ep_rc,          \* proc.returncode
    ep_results,     \* the local variable results
    ep_procs,       \* the subprocesses started, in order
    ep_audit,       \* the audit_log rows written by execute_plan
    ep_command,     \* the commands row cmd_id: status, results, writes
    \* ---- LLMBrain._parse_json_response, one call (SpecParse)
    pj_result,      \* the argument result
    pj_plan,        \* the returned value
    pj_pc,          \* "call" | "done" | "raised" | "off"
    \* ---- main.py approve_command, concurrent requests (SpecApprove)
    ap_cmd,         \* the commands row cmd_id: its status, or NoRow
    ap_req,         \* per request: position, the row Command.get returned
    ap_tasks        \* the execute_plan runs handed to background_tasks

routerVars == <<settings, channels, connected, allowed_senders, conversations,
                audit_log, llm_usage, sent, req, routes, tasks, budget>>

splitVars == <<sp_orig, sp_max, sp_text, sp_chunks, sp_seps, sp_pc>>

asmVars == <<as_max, as_user, as_session, as_messages, as_budget, as_history,
             as_pc>>

mergeVars == <<mg_vector, mg_fts, mg_merged, mg_pc>>

storeVars == <<agent_memory, mem_next_id, now, has_vectors, mem_call,
               mem_budget>>

memVars == <<mergeVars, storeVars>>

tierVars == <<td_prompt, td_complexity, td_tier, td_pc>>

planVars == <<ep_plan, ep_i, ep_pc, ep_cmd, ep_exhausted, ep_rc, ep_results,
              ep_procs, ep_audit, ep_command>>

parseVars == <<pj_result, pj_plan, pj_pc>>

approveVars == <<ap_cmd, ap_req, ap_tasks>>

moreVars == <<approveVars>>

brainVars == <<tierVars, planVars, parseVars, moreVars>>

vars == <<routerVars, splitVars, asmVars, memVars, brainVars>>

----------------------------------------------------------------------------
(* Bounds of the model.                                                    *)

\* longest text handed to _split_at_boundaries in SpecSplit
MaxTextLen == 7
\* largest max_length tried in SpecSplit
MaxChunkLen == 3

----------------------------------------------------------------------------
(* Texts.                                                                  *)

NL == "\n"
SP == " "
DOT == "."

\* the characters texts are made of: a letter, a period, the two whitespace
\* characters the splitter looks for
Alphabet == {"a", DOT, SP, NL}

\* str.strip()/rstrip()/lstrip() without argument remove whitespace
Whitespace == {SP, NL}

Max(S) == CHOOSE x \in S : \A y \in S : y <= x
Min(S) == CHOOSE x \in S : \A y \in S : x <= y

\* text[lo:hi] with 0-based lo, hi already within 0..len
Slice(text, lo, hi) == IF hi <= lo THEN << >> ELSE SubSeq(text, lo + 1, hi)

TextsUpTo(n) == UNION { [1..k -> Alphabet] : k \in 0..n }

\* str.rfind(sub, 0, end): the highest 0-based index i with
\* text[i:i+len(sub)] == sub and i+len(sub) <= min(end, len(text)); -1 if none
RFind(text, sub, end) ==
    LET lim  == IF end < Len(text) THEN end ELSE Len(text)
        hits == { i \in 0..(lim - Len(sub)) :
                    \A j \in 1..Len(sub) : text[i + j] = sub[j] }
    IN  IF hits = {} THEN -1 ELSE Max(hits)

\* str.rstrip(): drop the trailing whitespace
RStrip(text) ==
    LET keep == { i \in 1..Len(text) : text[i] \notin Whitespace }
    IN  IF keep = {} THEN << >> ELSE SubSeq(text, 1, Max(keep))

\* str.lstrip(): drop the leading whitespace
LStrip(text) ==
    LET keep == { i \in 1..Len(text) : text[i] \notin Whitespace }
    IN  IF keep = {} THEN << >> ELSE SubSeq(text, Min(keep), Len(text))

----------------------------------------------------------------------------
(* MessageRouter._split_at_boundaries                                      *)

\* a splitter that takes the last space before it looks for a sentence end
SplitPointSpaceFirst(text, max_length) ==
    LET para == RFind(text, <<NL, NL>>, max_length)
        line == IF para = -1 THEN RFind(text, <<NL>>, max_length) ELSE para
        spc  == IF line = -1 THEN RFind(text, <<SP>>, max_length) ELSE line
    IN  IF spc = -1 THEN max_length ELSE spc

\* the split point of one loop iteration (lines 152-165), for a text longer
\* than max_length
SplitPoint(text, max_length) ==
    LET para == RFind(text, <<NL, NL>>, max_length)
        line == IF para = -1 THEN RFind(text, <<NL>>, max_length) ELSE para
        dot  == RFind(text, <<DOT, SP>>, max_length)
        stop == IF line = -1
                THEN (IF dot # -1 THEN dot + 1 ELSE -1)
                ELSE line
        spc  == IF stop = -1 THEN RFind(text, <<SP>>, max_length) ELSE stop
    IN  IF spc = -1 THEN max_length ELSE spc

\* chunks.append(text[:split_at].rstrip())
ChunkOf(text, split_at) == RStrip(Slice(text, 0, split_at))

\* text = text[split_at:].lstrip()
RestOf(text, split_at) == LStrip(Slice(text, split_at, Len(text)))

\* the whole function: the loop, then the final append of a non-empty rest
RECURSIVE SplitLoop(_, _, _)
SplitLoop(text, max_length, chunks) ==
    IF Len(text) > max_length
    THEN LET split_at == SplitPoint(text, max_length)
         IN  SplitLoop(RestOf(text, split_at), max_length,
                       Append(chunks, ChunkOf(text, split_at)))
    ELSE IF text # << >> THEN Append(chunks, text) ELSE chunks

_split_at_boundaries(text, max_length) == SplitLoop(text, max_length, << >>)

\* the separator one iteration splits at (lines 152-165): the one whose rfind
\* set split_at; after ". " the period stays in the chunk; none for a hard cut
SeparatorAt(text, max_length) ==
    IF RFind(text, <<NL, NL>>, max_length) # -1 THEN <<NL, NL>>
    ELSE IF RFind(text, <<NL>>, max_length) # -1 THEN <<NL>>
    ELSE IF RFind(text, <<DOT, SP>>, max_length) # -1 THEN <<SP>>
    ELSE IF RFind(text, <<SP>>, max_length) # -1 THEN <<SP>>
    ELSE << >>

----------------------------------------------------------------------------
(* Python values.                                                          *)

None == "None"
EmptyText == << >>

\* None where a text is expected (a text holds one-character strings only)
NoText == <<"None">>
\* None where a session id is expected; session ids are tuples
NoSession == << >>
\* dict.get(key): << >> for None, <<v>> for the value v
Absent == << >>
Present(v) == <<v>>

\* the texts of the router model are short: the channel ceilings below are
\* scaled down with them, 1 character standing for 1,000
T_hi   == <<"h", "i">>
T_fix  == <<"F", "i", "x">>
T_list == <<"l", "i", "s", "t">>

\* LLMBrain._call_with_failover line 156, the fixed unavailability text
UnavailableText == <<"!">>

\* what a provider may answer: a short text, and one that needs splitting
ShortResponse == <<"o", "k">>
LongResponse == <<"a", "a", NL, NL, "b", "b", "b">>
Responses == {ShortResponse, LongResponse}

----------------------------------------------------------------------------
(* LLMBrain.__init__: the model chain of each tier.                        *)

LocalModel == "ollama/qwen2.5:7b"

Tier2Cloud(s) ==
    (IF s.anthropic_api_key THEN <<"anthropic/claude-haiku-4-5-20251001">>
     ELSE << >>)
    \o (IF s.openai_api_key THEN <<"openai/gpt-4o-mini">> ELSE << >>)

Tier3Cloud(s) ==
    (IF s.anthropic_api_key THEN <<"anthropic/claude-sonnet-4-5-20250929">>
     ELSE << >>)
    \o (IF s.openai_api_key THEN <<"openai/gpt-4o">> ELSE << >>)

\* self.models
Models(s) ==
    LET m1 == <<LocalModel>>
        m2 == IF Tier2Cloud(s) # << >> THEN Tier2Cloud(s) ELSE m1
        m3 == IF Tier3Cloud(s) # << >> THEN Tier3Cloud(s) ELSE m2
    IN  <<m1, m2, m3>>

SettingsSet == [anthropic_api_key : BOOLEAN, openai_api_key : BOOLEAN]

----------------------------------------------------------------------------
(* LLMBrain._determine_tier                                                *)

UpperCase == <<"A", "B", "C", "D", "E", "F", "G", "H", "I", "J", "K", "L", "M",
               "N", "O", "P", "Q", "R", "S", "T", "U", "V", "W", "X", "Y", "Z">>
LowerCase == <<"a", "b", "c", "d", "e", "f", "g", "h", "i", "j", "k", "l", "m",
               "n", "o", "p", "q", "r", "s", "t", "u", "v", "w", "x", "y", "z">>

LowerChar(c) ==
    IF \E i \in 1..Len(UpperCase) : UpperCase[i] = c
    THEN LowerCase[CHOOSE i \in 1..Len(UpperCase) : UpperCase[i] = c]
    ELSE c

\* str.lower()
Lower(text) == [i \in 1..Len(text) |-> LowerChar(text[i])]

\* `kw in text`
Contains(text, kw) ==
    \E i \in 0..(Len(text) - Len(kw)) : \A j \in 1..Len(kw) : text[i + j] = kw[j]

\* len(text.split()): the number of maximal runs of non-whitespace
WordCount(text) ==
    Cardinality({ i \in 1..Len(text) :
                    /\ text[i] \notin Whitespace
                    /\ (i = 1 \/ text[i - 1] \in Whitespace) })

complex_keywords ==
    << <<"a", "n", "a", "l", "y", "z", "e">>,
       <<"p", "l", "a", "n">>,
       <<"r", "e", "v", "i", "e", "w">>,
       <<"a", "u", "d", "i", "t">>,
       <<"d", "e", "b", "u", "g">>,
       <<"e", "x", "p", "l", "a", "i", "n", " ", "w", "h", "y">>,
       <<"a", "r", "c", "h", "i", "t", "e", "c", "t", "u", "r", "e">>,
       <<"s", "t", "r", "a", "t", "e", "g", "y">>,
       <<"m", "i", "g", "r", "a", "t", "i", "o", "n">>,
       <<"r", "e", "f", "a", "c", "t", "o", "r">>,
       <<"s", "e", "c", "u", "r", "i", "t", "y">>,
       <<"w", "r", "i", "t", "e", " ", "c", "o", "d", "e">>,
       <<"f", "i", "x">>,
       <<"d", "e", "p", "l", "o", "y">> >>

simple_keywords ==
    << <<"s", "t", "a", "t", "u", "s">>,
       <<"c", "h", "e", "c", "k">>,
       <<"r", "e", "s", "t", "a", "r", "t">>,
       <<"l", "i", "s", "t">>,
       <<"s", "h", "o", "w">>,
       <<"w", "h", "a", "t", " ", "i", "s">>,
       <<"h", "o", "w", " ", "m", "a", "n", "y">>,
       <<"u", "p", "t", "i", "m", "e">>,
       <<"h", "e", "a", "l", "t", "h">> >>

AnyKeyword(text, kws) == \E i \in 1..Len(kws) : Contains(text, kws[i])

\* the heuristics with the two keyword tests in the other order
SimpleFirstTier(prompt, complexity) ==
    IF complexity = "low" THEN 1
    ELSE IF complexity = "high" THEN 3
    ELSE IF AnyKeyword(Lower(prompt), simple_keywords)
            /\ 13 * WordCount(prompt) < 1000
         THEN 1
         ELSE IF AnyKeyword(Lower(prompt), complex_keywords)
                 \/ 13 * WordCount(prompt) > 5000
              THEN 3
              ELSE 2

\* token_estimate = len(prompt.split()) * 1.3 is compared in tenths:
\* 13 * words > 5000 is token_estimate > 500, 13 * words < 1000 is < 100
_determine_tier(prompt, complexity) ==
    IF complexity = "low" THEN 1
    ELSE IF complexity = "high" THEN 3
    ELSE LET prompt_lower == Lower(prompt)
             words == WordCount(prompt)
         IN  IF AnyKeyword(prompt_lower, complex_keywords) \/ 13 * words > 5000
             THEN 3
             ELSE IF AnyKeyword(prompt_lower, simple_keywords)
                     /\ 13 * words < 1000
                  THEN 1
                  ELSE 2

----------------------------------------------------------------------------
(* The router model: messages, tables, tasks.                              *)

\* the route() tasks that may run at once, in the order they are taken
TaskOrder == <<"t1", "t2">>
Reqs == { TaskOrder[i] : i \in 1..Len(TaskOrder) }

\* awaited calls that fail in one behaviour of Spec: a provider call that
\* raises, a usage row that cannot be written, a task that dies while suspended
MaxFaults == 1

\* MessageRouter._send_chunked lines 133-137, scaled: 4 for 4000 and 100
\* for 100_000
ChatMaxLength == 4
WebMaxLength == 100

ChannelIds == {"web", "telegram"}

\* the messages the adapters hand to route(); id is given when the call starts
Message(ch, sender, name, txt, grp, gid, sid) ==
    [channel |-> ch, sender_id |-> sender, sender_name |-> name, text |-> txt,
     is_group |-> grp, group_id |-> gid, session_id |-> sid, id |-> 0]

MessagePool ==
    { Message("telegram", "u1", "Ann", T_hi,   TRUE,  "g1", NoSession),
      Message("telegram", "u2", "Bob", T_fix,  TRUE,  "g1", NoSession),
      Message("telegram", "u1", "Ann", T_hi,   FALSE, None, NoSession),
      Message("web",      "u1", "u1",  T_list, FALSE, None, <<"web:u1">>) }

NoMessage == Message(None, None, None, NoText, FALSE, None, NoSession)

\* InternalMessage.chat_id
chat_id(message) ==
    IF message.is_group THEN message.group_id ELSE message.sender_id

\* hashlib.sha256(raw.encode()).hexdigest()[:24]: a function of raw alone
Sha256Hex24(raw) == <<"sha256/24", raw>>

\* MessageRouter._derive_session_id
DeriveFromSender(message) ==
    Sha256Hex24(<<message.channel, ":", message.sender_id>>)
_derive_session_id(message) ==
    Sha256Hex24(<<message.channel, ":", chat_id(message)>>)

\* self._allowed_senders.get(message.channel)
AllowedFor(channel) ==
    IF channel \in DOMAIN allowed_senders
    THEN Present(allowed_senders[channel])
    ELSE Absent

\* MessageRouter._is_authorized, on the value of its local `allowed`
AuthorizedOnlyIfListed(allowed, message) ==
    allowed # Absent /\ message.sender_id \in allowed[1]
_is_authorized(allowed, message) ==
    IF allowed = Absent \/ allowed[1] = {} THEN TRUE
    ELSE message.sender_id \in allowed[1]

\* max_length of _send_chunked
MaxLengthFor(channel) ==
    CASE channel = "whatsapp" -> ChatMaxLength
      [] channel = "telegram" -> ChatMaxLength
      [] channel = "web"      -> WebMaxLength
      [] OTHER                -> ChatMaxLength

\* _send_chunked: the texts it passes to send_response, in call order
SendPlan(channel, response) ==
    IF Len(response) <= MaxLengthFor(channel) THEN <<response>>
    ELSE _split_at_boundaries(response, MaxLengthFor(channel))

\* AuditLog.log's parameters, and the keywords route() passes to it
AuditLogParams ==
    {"actor", "action", "resource", "channel", "details", "ip_address",
     "success"}
RouteAuditKeywords == {"actor", "action", "resource", "detail", "success"}

\* a task that is not running
IdleTask ==
    [pc |-> "idle", msg |-> NoMessage, preset |-> NoSession,
     allowed |-> Absent, auth |-> FALSE, start_tier |-> 0, tier |-> 0,
     idx |-> 0, attempted |-> << >>, response |-> NoText,
     deliver |-> FALSE, chunks |-> << >>, k |-> 0, result |-> NoText]

\* positions at which a task is suspended in an await
AwaitPcs == {"r_save_user", "t_assemble", "t_call", "t_usage", "t_save",
             "r_send"}
EndedPcs == {"returned", "raised", "crashed"}

Turn(message, role, sender, content) ==
    [route |-> message.id, session_id |-> message.session_id,
     channel |-> message.channel, sender_id |-> sender, role |-> role,
     content |-> content]

\* the state after main.py has built the brain, the web adapter and the
\* router (lines 62-65); WebChannelAdapter starts connected
RouterInit ==
    /\ channels = {"web"}
    /\ connected = [c \in ChannelIds |-> c = "web"]
    /\ allowed_senders = << >>
    /\ conversations = << >>
    /\ audit_log = << >>
    /\ llm_usage = << >>
    /\ sent = << >>
    /\ req = [r \in Reqs |-> IdleTask]
    /\ routes = 0

AsmOff ==
    /\ as_max = 0 /\ as_user = << >> /\ as_session = NoSession
    /\ as_messages = << >> /\ as_budget = 0 /\ as_pc = "off"
    /\ as_history = << >>

MergeOff ==
    /\ mg_vector = << >> /\ mg_fts = << >> /\ mg_merged = << >>
    /\ mg_pc = "off"

StoreOff ==
    /\ agent_memory = << >> /\ mem_next_id = 1 /\ now = 0
    /\ has_vectors = FALSE /\ mem_call = << >>
    /\ mem_budget = [ops |-> 0, faults |-> 0]

MemOff == MergeOff /\ StoreOff

SplitOff ==
    /\ sp_orig = << >> /\ sp_max = 0 /\ sp_text = << >>
    /\ sp_chunks = << >> /\ sp_seps = << >> /\ sp_pc = "off"

TierOff ==
    /\ td_prompt = << >> /\ td_complexity = "auto" /\ td_tier = 0
    /\ td_pc = "off"

PlanOff ==
    /\ ep_plan = << >> /\ ep_i = 0 /\ ep_pc = "off" /\ ep_cmd = << >>
    /\ ep_exhausted = FALSE /\ ep_rc = 0 /\ ep_results = << >>
    /\ ep_procs = << >> /\ ep_audit = << >>
    /\ ep_command = [status |-> "awaiting_approval", results |-> << >>,
                     writes |-> 0]

ParseOff == pj_result = << >> /\ pj_plan = << >> /\ pj_pc = "off"

ApproveOff == ap_cmd = "off" /\ ap_req = << >> /\ ap_tasks = << >>

MoreOff == ApproveOff

BrainOff == TierOff /\ PlanOff /\ ParseOff /\ MoreOff

\* the state after main.py's lifespan has also registered and connected the
\* Telegram adapter (lines 88-101); set_allowed_senders is never called there
RouterStarted ==
    /\ channels = ChannelIds
    /\ connected = [c \in ChannelIds |-> TRUE]
    /\ allowed_senders = << >>
    /\ conversations = << >>
    /\ audit_log = << >>
    /\ llm_usage = << >>
    /\ sent = << >>
    /\ req = [r \in Reqs |-> IdleTask]
    /\ routes = 0

\* two route() calls, which may overlap, on the started application, the
\* Anthropic key configured
Init ==
    /\ settings = [anthropic_api_key |-> TRUE, openai_api_key |-> FALSE]
    /\ tasks = Reqs
    /\ budget = [routes |-> Len(TaskOrder), faults |-> MaxFaults]
    /\ RouterStarted
    /\ SplitOff
    /\ AsmOff
    /\ MemOff
    /\ BrainOff

\* the longest failover chain: every candidate of every tier
LongestChain == Len(Tier3Cloud([anthropic_api_key |-> TRUE,
                                openai_api_key |-> TRUE]))
                + Len(Tier2Cloud([anthropic_api_key |-> TRUE,
                                  openai_api_key |-> TRUE])) + 1

\* one route() call on a freshly built router, every configuration of the
\* provider keys, and as many failing awaits as the longest chain has
\* candidates
InitRoute ==
    /\ settings \in SettingsSet
    /\ tasks = {TaskOrder[1]}
    /\ budget = [routes |-> 1, faults |-> LongestChain]
    /\ RouterInit
    /\ SplitOff
    /\ AsmOff
    /\ MemOff
    /\ BrainOff

----------------------------------------------------------------------------
(* MessageRouter.route and LLMBrain.think, one step per await.             *)

SetReq(r, rec) == req' = [req EXCEPT ![r] = rec]

\* route() lines 60-76: the auth check, the session id, up to the await of
\* the user turn's save_turn
FreeTasks == { r \in tasks : req[r].pc \in {"idle"} \cup EndedPcs }
FirstFree ==
    TaskOrder[Min({ i \in 1..Len(TaskOrder) : TaskOrder[i] \in FreeTasks })]

RouteStart(r, m) ==
    /\ FreeTasks # {}
    /\ r = FirstFree
    /\ routes < budget.routes
    /\ routes' = routes + 1
    /\ LET message == [m EXCEPT !.id = routes + 1]
           allowed == AllowedFor(message.channel)
           base    == [IdleTask EXCEPT !.msg = message,
                                       !.preset = message.session_id,
                                       !.allowed = allowed]
       IN  IF ~ _is_authorized(allowed, message)
           THEN SetReq(r, [base EXCEPT !.pc = "returned",
                                       !.result = EmptyText])
           ELSE SetReq(r, [base EXCEPT
                    !.pc = "r_save_user",
                    !.auth = TRUE,
                    !.msg = [message EXCEPT !.session_id =
                               IF message.session_id = NoSession
                               THEN _derive_session_id(message)
                               ELSE message.session_id]])
    /\ UNCHANGED <<settings, channels, connected, allowed_senders,
                   conversations, audit_log, llm_usage, sent>>
    /\ UNCHANGED <<tasks, budget, splitVars, asmVars, memVars,
                   brainVars>>

\* route() lines 76-91 and think() lines 96-100: the user turn is written,
\* think() picks the tier and awaits assemble()
RouteSaveUserSkipped(r) ==
    /\ req[r].pc = "r_save_user"
    /\ LET t == _determine_tier(req[r].msg.text, "auto")
       IN  SetReq(r, [req[r] EXCEPT !.pc = "t_assemble", !.start_tier = t])
    /\ UNCHANGED <<settings, channels, connected, allowed_senders,
                   conversations, audit_log, llm_usage, sent, routes>>
    /\ UNCHANGED <<tasks, budget, splitVars, asmVars, memVars,
                   brainVars>>
RouteSaveUser(r) ==
    /\ req[r].pc = "r_save_user"
    /\ conversations' = Append(conversations,
            Turn(req[r].msg, "user", req[r].msg.sender_id, req[r].msg.text))
    /\ LET t == _determine_tier(req[r].msg.text, "auto")
       IN  SetReq(r, [req[r] EXCEPT !.pc = "t_assemble", !.start_tier = t])
    /\ UNCHANGED <<settings, channels, connected, allowed_senders,
                   audit_log, llm_usage, sent, routes>>
    /\ UNCHANGED <<tasks, budget, splitVars, asmVars, memVars,
                   brainVars>>

\* think() lines 100-111: assemble() returns the context, which goes to the
\* provider only; _call_with_failover starts with the first candidate of the
\* starting tier
ThinkAssemble(r) ==
    /\ req[r].pc = "t_assemble"
    /\ SetReq(r, [req[r] EXCEPT !.pc = "t_call",
                                !.tier = req[r].start_tier, !.idx = 1])
    /\ UNCHANGED <<settings, channels, connected, allowed_senders,
                   conversations, audit_log, llm_usage, sent, routes>>
    /\ UNCHANGED <<tasks, budget, splitVars, asmVars, memVars,
                   brainVars>>

\* _call_with_failover lines 127-129 and 152-156: where the loops go after
\* the candidate at (tier, idx) failed; tier 0 when tier 1 is exhausted
NextCandidateSkipsTier(models, tier, idx) ==
    [tier |-> tier - 1, idx |-> 1]
NextCandidate(models, tier, idx) ==
    IF idx < Len(models[tier]) THEN [tier |-> tier, idx |-> idx + 1]
    ELSE [tier |-> tier - 1, idx |-> 1]

\* line 156: what the call returns when every candidate failed
ExhaustedNoValue == NoText
ExhaustedValue == UnavailableText

\* _call_with_failover lines 130-154: one acompletion call comes back, with
\* content or with an exception
Fault(failed) ==
    /\ failed => budget.faults > 0
    /\ budget' = IF failed THEN [budget EXCEPT !.faults = @ - 1] ELSE budget

FailoverAttempt(r, ok, content) ==
    /\ req[r].pc = "t_call"
    /\ Fault(~ ok)
    /\ LET models == Models(settings)
           model  == models[req[r].tier][req[r].idx]
           tried  == Append(req[r].attempted,
                        [tier |-> req[r].tier, model |-> model, ok |-> ok,
                         content |-> IF ok THEN content ELSE NoText])
           next   == NextCandidate(models, req[r].tier, req[r].idx)
       IN  IF ok
           THEN SetReq(r, [req[r] EXCEPT !.pc = "t_usage",
                                         !.attempted = tried,
                                         !.response = content])
           ELSE IF next.tier >= 1
           THEN SetReq(r, [req[r] EXCEPT !.attempted = tried,
                                         !.tier = next.tier,
                                         !.idx = next.idx])
           ELSE SetReq(r, [req[r] EXCEPT !.pc = "t_save",
                                         !.attempted = tried,
                                         !.tier = 0,
                                         !.response = ExhaustedValue])
    /\ UNCHANGED <<settings, channels, connected, allowed_senders,
                   conversations, audit_log, llm_usage, sent, routes>>
    /\ UNCHANGED <<tasks, splitVars, asmVars, memVars,
                   brainVars>>

\* _track_usage without its try/except: a failed write raises into the try of
\* _call_with_failover, whose handler goes on to the next candidate
TrackUsagePropagates(r, written) ==
    /\ req[r].pc = "t_usage"
    /\ Fault(~ written)
    /\ llm_usage' =
         IF written
         THEN Append(llm_usage,
                [route |-> req[r].msg.id, tier |-> req[r].tier,
                 model |-> Models(settings)[req[r].tier][req[r].idx]])
         ELSE llm_usage
    /\ LET next == NextCandidate(Models(settings), req[r].tier, req[r].idx)
       IN  IF written
           THEN SetReq(r, [req[r] EXCEPT !.pc = "t_save"])
           ELSE IF next.tier >= 1
           THEN SetReq(r, [req[r] EXCEPT !.pc = "t_call",
                                         !.tier = next.tier,
                                         !.idx = next.idx])
           ELSE SetReq(r, [req[r] EXCEPT !.pc = "t_save",
                                         !.response = ExhaustedValue])
    /\ UNCHANGED <<settings, channels, connected, allowed_senders,
                   conversations, audit_log, sent, routes>>
    /\ UNCHANGED <<tasks, splitVars, asmVars, memVars, brainVars>>

\* _track_usage lines 187-210: the row is written, or the write fails and the
\* exception is swallowed; think() then awaits the assistant turn's save_turn
TrackUsage(r, written) ==
    /\ req[r].pc = "t_usage"
    /\ Fault(~ written)
    /\ llm_usage' =
         IF written
         THEN Append(llm_usage,
                [route |-> req[r].msg.id, tier |-> req[r].tier,
                 model |-> Models(settings)[req[r].tier][req[r].idx]])
         ELSE llm_usage
    /\ SetReq(r, [req[r] EXCEPT !.pc = "t_save"])
    /\ UNCHANGED <<settings, channels, connected, allowed_senders,
                   conversations, audit_log, sent, routes>>
    /\ UNCHANGED <<tasks, splitVars, asmVars, memVars,
                   brainVars>>

\* think() lines 114-123 and route() lines 93-98: the assistant turn is
\* written, think() returns, route() looks up the adapter and, if it is
\* connected, awaits the first send_response
ThinkSaveTurn(r) ==
    /\ req[r].pc = "t_save"
    /\ conversations' = Append(conversations,
            Turn(req[r].msg, "assistant", "assistant", req[r].response))
    /\ LET channel == req[r].msg.channel
           deliver == channel \in channels /\ connected[channel]
       IN  IF deliver
           THEN SetReq(r, [req[r] EXCEPT
                    !.pc = "r_send", !.deliver = TRUE,
                    !.chunks = SendPlan(channel, req[r].response), !.k = 0])
           ELSE SetReq(r, [req[r] EXCEPT !.pc = "r_audit",
                                         !.deliver = FALSE])
    /\ UNCHANGED <<settings, channels, connected, allowed_senders,
                   audit_log, llm_usage, sent, routes>>
    /\ UNCHANGED <<tasks, budget, splitVars, asmVars, memVars,
                   brainVars>>

\* _send_chunked lines 139-144: one send_response call completes
NextChunkBackwards(rec) == Len(rec.chunks) - rec.k
NextChunk(rec) == rec.k + 1

RouteSend(r) ==
    /\ req[r].pc = "r_send"
    /\ sent' = Append(sent,
            [adapter |-> req[r].msg.channel, route |-> req[r].msg.id,
             text |-> req[r].chunks[NextChunk(req[r])]])
    /\ SetReq(r, [req[r] EXCEPT
            !.k = req[r].k + 1,
            !.pc = IF req[r].k + 1 = Len(req[r].chunks) THEN "r_audit"
                   ELSE "r_send"])
    /\ UNCHANGED <<settings, channels, connected, allowed_senders,
                   conversations, audit_log, llm_usage, routes>>
    /\ UNCHANGED <<tasks, budget, splitVars, asmVars, memVars,
                   brainVars>>

\* route() lines 101-113: the call AuditLog.log(...): Python binds the
\* keywords to the parameters of database.AuditLog.log and raises TypeError
\* for a keyword that is no parameter; otherwise the row is written and
\* route() returns the response
RouteAudit(r) ==
    /\ req[r].pc = "r_audit"
    /\ IF RouteAuditKeywords \subseteq AuditLogParams
       THEN /\ audit_log' = Append(audit_log,
                    [route |-> req[r].msg.id,
                     actor |-> <<req[r].msg.channel, ":",
                                 req[r].msg.sender_id>>,
                     action |-> "message.routed",
                     session_id |-> req[r].msg.session_id])
            /\ SetReq(r, [req[r] EXCEPT !.pc = "returned",
                                        !.result = req[r].response])
       ELSE /\ audit_log' = audit_log
            /\ SetReq(r, [req[r] EXCEPT !.pc = "raised"])
    /\ UNCHANGED <<settings, channels, connected, allowed_senders,
                   conversations, llm_usage, sent, routes>>
    /\ UNCHANGED <<tasks, budget, splitVars, asmVars, memVars,
                   brainVars>>

\* the process dies, the task is cancelled, or the awaited storage or channel
\* call raises: the task ends where it is suspended
Crash(r) ==
    /\ req[r].pc \in AwaitPcs
    /\ Fault(TRUE)
    /\ SetReq(r, [req[r] EXCEPT !.pc = "crashed"])
    /\ UNCHANGED <<settings, channels, connected, allowed_senders,
                   conversations, audit_log, llm_usage, sent, routes>>
    /\ UNCHANGED <<tasks, splitVars, asmVars, memVars,
                   brainVars>>

\* MessageRouter.register_channel
RegisterChannel(c) ==
    /\ c \notin channels
    /\ channels' = channels \cup {c}
    /\ UNCHANGED <<settings, connected, allowed_senders, conversations,
                   audit_log, llm_usage, sent, req, routes>>
    /\ UNCHANGED <<tasks, budget, splitVars, asmVars, memVars,
                   brainVars>>

\* an adapter's connect() / disconnect(), or its connection dropping
SetConnected(c, up) ==
    /\ c \in channels
    /\ connected[c] # up
    /\ connected' = [connected EXCEPT ![c] = up]
    /\ UNCHANGED <<settings, channels, allowed_senders, conversations,
                   audit_log, llm_usage, sent, req, routes>>
    /\ UNCHANGED <<tasks, budget, splitVars, asmVars, memVars,
                   brainVars>>

\* MessageRouter.set_allowed_senders
SetAllowedSenders(c, ids) ==
    /\ AllowedFor(c) # Present(ids)
    /\ allowed_senders' = [x \in DOMAIN allowed_senders \cup {c} |->
                             IF x = c THEN ids ELSE allowed_senders[x]]
    /\ UNCHANGED <<settings, channels, connected, conversations,
                   audit_log, llm_usage, sent, req, routes>>
    /\ UNCHANGED <<tasks, budget, splitVars, asmVars, memVars,
                   brainVars>>

\* what a route() task does
RouteSteps ==
    \/ \E r \in Reqs, m \in MessagePool : RouteStart(r, m)
    \/ \E r \in Reqs : RouteSaveUser(r)
    \/ \E r \in Reqs : ThinkAssemble(r)
    \/ \E r \in Reqs, ok \in BOOLEAN, content \in Responses :
            FailoverAttempt(r, ok, content)
    \/ \E r \in Reqs, written \in BOOLEAN : TrackUsage(r, written)
    \/ \E r \in Reqs : ThinkSaveTurn(r)
    \/ \E r \in Reqs : RouteSend(r)
    \/ \E r \in Reqs : RouteAudit(r)
    \/ \E r \in Reqs : Crash(r)

\* concurrent route() tasks while the Telegram connection comes and goes
Next ==
    \/ RouteSteps
    \/ \E up \in BOOLEAN : SetConnected("telegram", up)

Spec == Init /\ [][Next]_vars

\* one route() call while the application registers, connects and configures
NextRoute ==
    \/ RouteSteps
    \/ RegisterChannel("telegram")
    \/ \E up \in BOOLEAN : SetConnected("telegram", up)
    \/ \E ids \in {{}, {"u1"}} : SetAllowedSenders("telegram", ids)

SpecRoute == InitRoute /\ [][NextRoute]_vars

----------------------------------------------------------------------------
(* Properties of _call_with_failover (SpecRoute).                          *)

\* the candidates in the order the two loops of lines 127-129 visit them:
\* range(starting_tier, 0, -1) outside, self.models[tier] inside
RECURSIVE Chain(_, _)
Chain(models, tier) ==
    IF tier < 1 THEN << >>
    ELSE [i \in 1..Len(models[tier]) |->
            [tier |-> tier, model |-> models[tier][i]]]
         \o Chain(models, tier - 1)

AllFailed(a) == \A i \in 1..Len(a) : ~ a[i].ok

\* C1: the models a failover call has attempted are a prefix of the chain
\* from the selected tier down to tier 1, in configured order; none is of a
\* tier above the selected one; every attempt before the last one failed; and
\* once an attempt succeeds the call is over, its value the text of that
\* attempt.
C1_FailoverFollowsChain ==
    \A r \in Reqs :
        LET a     == req[r].attempted
            chain == Chain(Models(settings), req[r].start_tier)
        IN  /\ Len(a) <= Len(chain)
            /\ \A i \in 1..Len(a) :
                 /\ a[i].tier = chain[i].tier
                 /\ a[i].model = chain[i].model
                 /\ a[i].tier <= req[r].start_tier
            /\ \A i \in 1..(Len(a) - 1) : ~ a[i].ok
            /\ (a # << >> /\ a[Len(a)].ok) =>
                 /\ req[r].pc # "t_call"
                 /\ req[r].response = a[Len(a)].content

\* C1 happens: a call that started at tier 3 fell through to a lower tier and
\* returned the text of the first candidate that answered
C1_Witness ==
    \E r \in Reqs :
        LET a == req[r].attempted
        IN  /\ req[r].start_tier = 3
            /\ Len(a) >= 2
            /\ a[Len(a)].tier < 3
            /\ a[Len(a)].ok
            /\ req[r].response = a[Len(a)].content

\* C2: a failover call makes no more attempts than the longest chain has
\* candidates; when every candidate from the selected tier down to tier 1 has
\* failed the call is over, its value is the fixed unavailability text, and
\* the request has no usage row.
C2_ExhaustionReturnsText ==
    \A r \in Reqs :
        LET a     == req[r].attempted
            chain == Chain(Models(settings), req[r].start_tier)
        IN  /\ Len(a) <= LongestChain
            /\ (req[r].start_tier >= 1 /\ Len(a) = Len(chain) /\ AllFailed(a))
               => /\ req[r].pc \in {"t_save", "r_send", "r_audit", "returned",
                                    "raised", "crashed"}
                  /\ req[r].response = UnavailableText
                  /\ \A i \in 1..Len(llm_usage) :
                        llm_usage[i].route # req[r].msg.id

\* C2 happens: a call that started at tier 3 with two providers configured
\* exhausted all its candidates, and think() went on to persist the turn
C2_Witness ==
    \E r \in Reqs :
        /\ req[r].start_tier = 3
        /\ Len(req[r].attempted) = LongestChain
        /\ AllFailed(req[r].attempted)
        /\ req[r].response = UnavailableText
        /\ req[r].pc \in {"r_send", "r_audit", "raised"}

----------------------------------------------------------------------------
(* Properties of route().                                                  *)

ConvIdx == 1..Len(conversations)

TurnsOf(session, role) ==
    { i \in ConvIdx : /\ conversations[i].session_id = session
                      /\ conversations[i].role = role }

SessionsWritten == { conversations[i].session_id : i \in ConvIdx }

HasTurn(r, role) ==
    \E i \in ConvIdx : /\ conversations[i].route = req[r].msg.id
                       /\ conversations[i].role = role

\* C3 (Spec): a task that has entered think() has its user turn in the table
\* under its session id; an assistant turn is in the table only after its
\* request's failover produced the response it carries, and after the user
\* turn of the same request; so no session has more assistant turns than user
\* turns, in any state, crashed tasks included.
C3_UserTurnBeforeAssistantTurn ==
    /\ \A r \in Reqs :
         (req[r].pc \in {"t_assemble", "t_call", "t_usage", "t_save"}
            \/ req[r].attempted # << >>)
         => \E i \in ConvIdx :
               /\ conversations[i].route = req[r].msg.id
               /\ conversations[i].role = "user"
               /\ conversations[i].session_id = req[r].msg.session_id
               /\ conversations[i].content = req[r].msg.text
    /\ \A r \in Reqs : \A i \in ConvIdx :
         (req[r].pc # "idle" /\ conversations[i].route = req[r].msg.id
            /\ conversations[i].role = "assistant")
         => /\ req[r].response # NoText
            /\ conversations[i].content = req[r].response
            /\ req[r].pc \notin {"r_save_user", "t_assemble", "t_call",
                                 "t_usage", "t_save"}
    /\ \A i \in ConvIdx :
         conversations[i].role = "assistant"
         => \E j \in 1..(i - 1) :
               /\ conversations[j].role = "user"
               /\ conversations[j].route = conversations[i].route
               /\ conversations[j].session_id = conversations[i].session_id
    /\ \A s \in SessionsWritten :
         Cardinality(TurnsOf(s, "assistant")) <= Cardinality(TurnsOf(s, "user"))

\* C3 happens: a task died inside think() leaving its user turn dangling,
\* while another request of the same session has both its turns
C3_Witness ==
    \E r, q \in Reqs :
        /\ r # q
        /\ req[r].pc = "crashed"
        /\ HasTurn(r, "user") /\ ~ HasTurn(r, "assistant")
        /\ req[q].msg.session_id = req[r].msg.session_id
        /\ HasTurn(q, "user") /\ HasTurn(q, "assistant")

RowsOf(log, id) == { i \in 1..Len(log) : log[i].route = id }

\* C4 (SpecRoute): route() goes on exactly unless the allow-list it read for
\* the message's channel is set, non-empty and without the sender; an
\* unauthorized call has returned "" and left no turn, no provider attempt,
\* no usage row, no delivery and no audit row.
C4_UnauthorizedHasNoEffect ==
    \A r \in Reqs :
        req[r].pc # "idle" =>
            LET m      == req[r].msg
                listed == req[r].allowed # Absent /\ req[r].allowed[1] # {}
            IN  /\ req[r].auth <=>
                     ~ (listed /\ m.sender_id \notin req[r].allowed[1])
                /\ ~ req[r].auth =>
                     /\ req[r].pc = "returned"
                     /\ req[r].result = EmptyText
                     /\ req[r].attempted = << >>
                     /\ RowsOf(conversations, m.id) = {}
                     /\ RowsOf(llm_usage, m.id) = {}
                     /\ RowsOf(sent, m.id) = {}
                     /\ RowsOf(audit_log, m.id) = {}

\* C4 happens: a sender outside a non-empty allow-list was turned away
C4_Witness ==
    \E r \in Reqs :
        /\ req[r].pc = "returned"
        /\ ~ req[r].auth
        /\ req[r].allowed = Present({"u1"})
        /\ req[r].msg.sender_id = "u2"
        /\ req[r].result = EmptyText

\* a route() call that ran to its end: it returned or raised by itself
Finished(r) == req[r].pc \in {"returned", "raised"}

\* C5 as the specification states it: every route() call of an authorized
\* message that ran to its end wrote exactly one "message.routed" audit row
\* with actor channel:sender, and an unauthorized one wrote none.
C5_OneAuditRecordPerRoute ==
    \A r \in Reqs :
        Finished(r) =>
            LET m    == req[r].msg
                rows == { i \in RowsOf(audit_log, m.id) :
                            /\ audit_log[i].action = "message.routed"
                            /\ audit_log[i].actor =
                                 <<m.channel, ":", m.sender_id>> }
            IN  Cardinality(rows) = IF req[r].auth THEN 1 ELSE 0

\* C6 as the specification states it: what has been sent for a request went
\* to the adapter of the message's channel, which was registered and
\* connected when delivery began; nothing is sent when it was not; and a
\* route() call that ran to its end handed the full response to its caller.
C6_DeliveryGatedAndResponseReturned ==
    \A r \in Reqs :
        (req[r].pc # "idle" /\ req[r].auth) =>
            LET m == req[r].msg
            IN  /\ \A i \in RowsOf(sent, m.id) :
                     /\ sent[i].adapter = m.channel
                     /\ req[r].deliver
                /\ Finished(r) => req[r].result = req[r].response

SentTexts(id) ==
    LET idx == RowsOf(sent, id)
        nth(k) == CHOOSE i \in idx : Cardinality({ j \in idx : j <= i }) = k
    IN  [k \in 1..Cardinality(idx) |-> sent[nth(k)].text]

\* the texts of `parts` occur in `text` one after the other, from 1-based
\* position `from` on
RECURSIVE OccurInOrder(_, _, _)
OccurInOrder(parts, text, from) ==
    IF parts = << >> THEN TRUE
    ELSE LET p    == parts[1]
             hits == { s \in from..(Len(text) - Len(p) + 1) :
                         \A j \in 1..Len(p) : text[s + j - 1] = p[j] }
         IN  /\ hits # {}
             /\ OccurInOrder(Tail(parts), text, Min(hits) + Len(p))

Delivered(r) == req[r].pc \in {"r_audit", "returned", "raised"}

\* C7 (SpecRoute): the send_response calls completed for a request carry, in
\* call order, the first chunks of the response in the order they occur in
\* it, and all of them once delivery is over; a response no longer than the
\* channel maximum is delivered by one call carrying the whole text.
C7_ChunksSentInReadingOrder ==
    \A r \in Reqs :
        req[r].deliver =>
            LET out  == SentTexts(req[r].msg.id)
                resp == req[r].response
                max  == MaxLengthFor(req[r].msg.channel)
                all  == _split_at_boundaries(resp, max)
            IN  IF Len(resp) <= max
                THEN /\ out \in {<< >>, <<resp>>}
                     /\ Delivered(r) => out = <<resp>>
                ELSE /\ Len(out) <= Len(all)
                     /\ \A i \in 1..Len(out) : out[i] = all[i]
                     /\ OccurInOrder(out, resp, 1)
                     /\ Delivered(r) => Len(out) = Len(all)

\* C7 happens: a response longer than the Telegram maximum has been delivered
\* in more than one call
C7_Witness ==
    \E r \in Reqs :
        /\ req[r].deliver
        /\ Delivered(r)
        /\ Len(req[r].response) > MaxLengthFor(req[r].msg.channel)
        /\ Len(SentTexts(req[r].msg.id)) >= 2

----------------------------------------------------------------------------
(* SpecSplit: one call of _split_at_boundaries, one loop iteration a step. *)

SplitInit ==
    /\ sp_max \in 1..MaxChunkLen
    /\ sp_orig \in TextsUpTo(MaxTextLen)
    /\ sp_text = sp_orig
    /\ sp_chunks = << >>
    /\ sp_seps = << >>
    /\ sp_pc = "loop"
    /\ settings = [anthropic_api_key |-> FALSE, openai_api_key |-> FALSE]
    /\ tasks = {}
    /\ budget = [routes |-> 0, faults |-> 0]
    /\ RouterInit
    /\ AsmOff
    /\ MemOff
    /\ BrainOff

\* one iteration of `while len(text) > max_length`
SplitIterate ==
    /\ sp_pc = "loop"
    /\ Len(sp_text) > sp_max
    /\ LET split_at == SplitPoint(sp_text, sp_max)
       IN  /\ sp_chunks' = Append(sp_chunks, ChunkOf(sp_text, split_at))
           /\ sp_seps' = Append(sp_seps, SeparatorAt(sp_text, sp_max))
           /\ sp_text' = RestOf(sp_text, split_at)
    /\ UNCHANGED <<sp_orig, sp_max, sp_pc>>
    /\ UNCHANGED <<routerVars, asmVars, memVars,
                   brainVars>>

\* loop exit: `if text: chunks.append(text)`, `return chunks`
SplitReturn ==
    /\ sp_pc = "loop"
    /\ Len(sp_text) <= sp_max
    /\ sp_chunks' = IF sp_text # << >> THEN Append(sp_chunks, sp_text)
                    ELSE sp_chunks
    /\ sp_pc' = "done"
    /\ UNCHANGED <<sp_orig, sp_max, sp_text, sp_seps>>
    /\ UNCHANGED <<routerVars, asmVars, memVars,
                   brainVars>>

SplitNext == SplitIterate \/ SplitReturn

SpecSplit == SplitInit /\ [][SplitNext]_vars

\* the chunks joined again, seps[i] between chunk i and chunk i+1
RECURSIVE Rejoin(_, _)
Rejoin(chunks, seps) ==
    IF chunks = << >> THEN << >>
    ELSE IF Len(chunks) = 1 \/ seps = << >> THEN chunks[1]
    ELSE chunks[1] \o seps[1] \o Rejoin(Tail(chunks), Tail(seps))

\* C8 as the specification states it, at the model's scale: a text more than
\* twice as long as the ceiling (9,000 characters against 4,000) comes back
\* as at least 3 chunks, and the chunks joined again with the separators the
\* text was split at are the original text.
C8_ThreeChunksRejoinLossless ==
    (sp_pc = "done" /\ Len(sp_orig) > 2 * sp_max) =>
        /\ Len(sp_chunks) >= 3
        /\ Rejoin(sp_chunks, sp_seps) = sp_orig

----------------------------------------------------------------------------
(* ContextAssembler.assemble (SpecAssemble), one step per await.           *)

TOKEN_RATIO == 4

estimate_tokens(text_str) == Len(text_str) \div TOKEN_RATIO

Repeat(c, n) == [i \in 1..n |-> c]

\* SYSTEM_PROMPT is 1465 characters long; the model keeps its first character
\* and its length
SystemPromptLen == 1465
SYSTEM_PROMPT == <<"Y">> \o Repeat("s", SystemPromptLen - 1)

\* ContextAssembler.__init__: the default of max_context_tokens
DefaultMaxContextTokens == 8000

DigitChars == <<"0", "1", "2", "3", "4", "5", "6", "7", "8", "9">>

\* how Python prints a non-negative integer
RECURSIVE Digits(_)
Digits(n) ==
    IF n < 10 THEN <<DigitChars[n + 1]>>
    ELSE Digits(n \div 10) \o <<DigitChars[(n % 10) + 1]>>

\* sep.join(lines)
RECURSIVE Join(_, _)
Join(lines, sep) ==
    IF lines = << >> THEN << >>
    ELSE IF Len(lines) = 1 THEN lines[1]
    ELSE lines[1] \o sep \o Join(Tail(lines), sep)

\* line 97: f" (confidence: {m['confidence']:.0%})" if m.get("confidence")
\* else ""; a confidence is held in whole percent
ConfidenceNote(m) ==
    IF m.confidence = 0 THEN << >>
    ELSE <<" ", "(", "c", "o", "n", "f", "i", "d", "e", "n", "c", "e", ":", " ">>
         \o Digits(m.confidence) \o <<"%", ")">>

MemoryHeader ==
    <<"R", "e", "l", "e", "v", "a", "n", "t", " ", "k", "n", "o", "w", "l",
      "e", "d", "g", "e", " ", "f", "r", "o", "m", " ", "m", "e", "m", "o",
      "r", "y", ":", NL>>

\* lines 95-99: memory_text
MemoryText(memories) ==
    MemoryHeader
    \o Join([i \in 1..Len(memories) |->
                <<"-", " ">> \o memories[i].content
                \o ConfidenceNote(memories[i])], <<NL>>)

KnowledgeHeader ==
    <<"I", "n", "f", "r", "a", "s", "t", "r", "u", "c", "t", "u", "r", "e",
      " ", "c", "o", "n", "t", "e", "x", "t", ":", NL>>

\* _get_relevant_knowledge lines 152-156, on the rows the query returned
KnowledgeText(rows) ==
    IF rows = << >> THEN NoText
    ELSE KnowledgeHeader
         \o Join([i \in 1..Len(rows) |->
                     <<"-", " ", "[">> \o rows[i].domain \o <<"]", " ">>
                     \o rows[i].key \o <<":", " ">> \o rows[i].value],
                 <<NL>>)

\* _get_history: the newest `limit` rows of the session, oldest first
\* (ORDER BY created_at DESC LIMIT :limit, then reversed)
_get_history(table, session_id, limit) ==
    LET idx  == { i \in 1..Len(table) : table[i].session_id = session_id }
        last == { i \in idx : Cardinality({ j \in idx : j > i }) < limit }
        nth(k) == CHOOSE i \in last : Cardinality({ j \in last : j <= i }) = k
    IN  [k \in 1..Cardinality(last) |->
            [role |-> table[nth(k)].role, content |-> table[nth(k)].content]]

\* lines 118-125: the loop over reversed(history); `taken` is history_to_add
RECURSIVE HistoryLoopSkipsTurn(_, _, _)
HistoryLoopSkipsTurn(history, budget_remaining, taken) ==
    IF history = << >>
    THEN [history_to_add |-> taken, budget_remaining |-> budget_remaining]
    ELSE LET msg        == history[Len(history)]
             msg_tokens == estimate_tokens(msg.content)
             fits       == msg_tokens < budget_remaining
         IN  HistoryLoopSkipsTurn(
                 SubSeq(history, 1, Len(history) - 1),
                 IF fits THEN budget_remaining - msg_tokens
                 ELSE budget_remaining,
                 IF fits THEN <<msg>> \o taken ELSE taken)
\* the loop without the test of line 120: every fetched turn is added
RECURSIVE HistoryLoopTakesAll(_, _, _)
HistoryLoopTakesAll(history, budget_remaining, taken) ==
    IF history = << >>
    THEN [history_to_add |-> taken, budget_remaining |-> budget_remaining]
    ELSE LET msg        == history[Len(history)]
             msg_tokens == estimate_tokens(msg.content)
         IN  HistoryLoopTakesAll(SubSeq(history, 1, Len(history) - 1),
                                 budget_remaining - msg_tokens,
                                 <<msg>> \o taken)
RECURSIVE HistoryLoop(_, _, _)
HistoryLoop(history, budget_remaining, taken) ==
    IF history = << >>
    THEN [history_to_add |-> taken, budget_remaining |-> budget_remaining]
    ELSE LET msg        == history[Len(history)]
             msg_tokens == estimate_tokens(msg.content)
         IN  IF msg_tokens < budget_remaining
             THEN HistoryLoop(SubSeq(history, 1, Len(history) - 1),
                              budget_remaining - msg_tokens,
                              <<msg>> \o taken)
             ELSE [history_to_add |-> taken,
                   budget_remaining |-> budget_remaining]

\* a message of the returned list; `part` records the step of assemble()
\* that appended it
Msg(role, content, part) == [role |-> role, content |-> content, part |-> part]

\* line 129: messages.append({"role": "user", "content": user_message})
FinalAppendTrimmed(msgs, user_message) ==
    Append(msgs, Msg("user",
                     SubSeq(user_message, 1,
                            Min({Len(user_message), 4000})),
                     "user"))
FinalAppend(msgs, user_message) ==
    Append(msgs, Msg("user", user_message, "user"))

\* ---- the inputs of the assemble() calls of the model

\* budgets that leave room for nothing, for the knowledge block only, for
\* every block, and the default
Budgets == {0, 900, 1200, 1400, 2400, DefaultMaxContextTokens}

ShortUserMessage == <<"h", "i">>
LongUserMessage == Repeat("u", 6000)
UserMessages == {ShortUserMessage, LongUserMessage}

AsmSession == <<"s1">>

Memory(content, confidence) == [content |-> content, confidence |-> confidence]

SearchResults ==
    { << >>,
      << Memory(<<"m", "1">>, 80), Memory(<<"m", "2">>, 0) >>,
      << Memory(Repeat("m", 8000), 100) >> }

KnowledgeRows ==
    { << >>,
      << [domain |-> <<"d">>, key |-> <<"k">>, value |-> <<"v">>] >>,
      << [domain |-> <<"d">>, key |-> <<"k">>, value |-> Repeat("v", 6000)] >> }

Row(session_id, role, content) ==
    [session_id |-> session_id, role |-> role, content |-> content]

ConversationTables ==
    { << >>,
      << Row(AsmSession, "user", <<"q", "1">>),
         Row(<<"s2">>, "user", <<"x">>),
         Row(AsmSession, "assistant", <<"r", "1">>),
         Row(AsmSession, "user", <<"q", "2">>) >>,
      << Row(AsmSession, "user", <<"q", "1">>),
         Row(AsmSession, "assistant", Repeat("r", 6000)),
         Row(AsmSession, "user", <<"q", "2">>) >>,
      [i \in 1..12 |->
         Row(AsmSession, IF i % 2 = 1 THEN "user" ELSE "assistant",
             <<"t">> \o Digits(i))] }

\* an assemble() call is about to run
AssembleInit ==
    /\ as_max \in Budgets
    /\ as_user \in UserMessages
    /\ as_session \in {NoSession, AsmSession}
    /\ as_messages = << >>
    /\ as_budget = 0
    /\ as_history = << >>
    /\ as_pc = "call"
    /\ settings = [anthropic_api_key |-> FALSE, openai_api_key |-> FALSE]
    /\ tasks = {}
    /\ budget = [routes |-> 0, faults |-> 0]
    /\ RouterInit
    /\ SplitOff
    /\ MemOff
    /\ BrainOff

\* where assemble() suspends next, given what is left of the budget: lines
\* 92, 106 and 115; "done" when it runs through to its return
AfterKnowledge(budget_remaining) ==
    IF as_session # NoSession /\ budget_remaining > 500 THEN "history"
    ELSE "done"
AfterMemory(budget_remaining) ==
    IF budget_remaining > 300 THEN "knowledge"
    ELSE AfterKnowledge(budget_remaining)
AfterSystem(budget_remaining) ==
    IF budget_remaining > 500 THEN "memory" ELSE AfterMemory(budget_remaining)

\* assemble() runs on to `pc`: to its next await, or through line 129 to its
\* return
Proceed(msgs, budget_remaining, pc) ==
    /\ as_budget' = budget_remaining
    /\ as_pc' = pc
    /\ as_messages' = IF pc = "done" THEN FinalAppend(msgs, as_user) ELSE msgs
    /\ UNCHANGED <<as_max, as_user, as_session>>
    /\ UNCHANGED <<routerVars, splitVars, memVars, brainVars>>

\* lines 82-92: the system prompt, the budget left after the prompt, the user
\* message and the reserve of 500
AssembleStart ==
    /\ as_pc = "call"
    /\ LET used_tokens      == estimate_tokens(SYSTEM_PROMPT)
           budget_remaining == as_max - used_tokens
                               - estimate_tokens(as_user) - 500
       IN  Proceed(<<Msg("system", SYSTEM_PROMPT, "system")>>,
                   budget_remaining, AfterSystem(budget_remaining))
    /\ UNCHANGED as_history

\* lines 93-106: memory.search returns `memories`
AssembleMemory(memories) ==
    /\ as_pc = "memory"
    /\ LET memory_text == MemoryText(memories)
           mem_tokens  == estimate_tokens(memory_text)
           fits        == memories # << >> /\ mem_tokens < as_budget
           left        == IF fits THEN as_budget - mem_tokens ELSE as_budget
       IN  Proceed(IF fits
                   THEN Append(as_messages,
                               Msg("system", memory_text, "memory"))
                   ELSE as_messages,
                   left, AfterMemory(left))
    /\ UNCHANGED as_history

\* lines 107-115: _get_relevant_knowledge returns the text of `rows`, or None
AssembleKnowledge(rows) ==
    /\ as_pc = "knowledge"
    /\ LET knowledge   == KnowledgeText(rows)
           know_tokens == estimate_tokens(knowledge)
           fits        == knowledge # NoText /\ know_tokens < as_budget
           left        == IF fits THEN as_budget - know_tokens ELSE as_budget
       IN  Proceed(IF fits
                   THEN Append(as_messages,
                               Msg("system", knowledge, "knowledge"))
                   ELSE as_messages,
                   left, AfterKnowledge(left))
    /\ UNCHANGED as_history

\* lines 116-135: _get_history returns the session's rows of `table`; the
\* newest turns that fit are added, then the user message
AssembleHistory(table) ==
    /\ as_pc = "history"
    /\ LET history == _get_history(table, as_session, 10)
           loop    == HistoryLoop(history, as_budget, << >>)
           turns   == [i \in 1..Len(loop.history_to_add) |->
                         Msg(loop.history_to_add[i].role,
                             loop.history_to_add[i].content, "history")]
       IN  /\ Proceed(as_messages \o turns, loop.budget_remaining, "done")
           /\ as_history' = history

AssembleNext ==
    \/ AssembleStart
    \/ \E memories \in SearchResults : AssembleMemory(memories)
    \/ \E rows \in KnowledgeRows : AssembleKnowledge(rows)
    \/ \E table \in ConversationTables : AssembleHistory(table)

SpecAssemble == AssembleInit /\ [][AssembleNext]_vars

PartRank(part) ==
    CASE part = "system"    -> 1
      [] part = "memory"    -> 2
      [] part = "knowledge" -> 3
      [] part = "history"   -> 4
      [] part = "user"      -> 5

PartsOf(msgs, part) == { i \in 1..Len(msgs) : msgs[i].part = part }

\* C10: the list assemble() returns starts with the system prompt and ends
\* with the user message, its text unchanged, whatever the budget (also when
\* the two alone exceed it); in between come at most one memory block, then at
\* most one knowledge block, then the history turns.
C10_SystemFirstUserLast ==
    as_pc = "done" =>
        /\ Len(as_messages) >= 2
        /\ as_messages[1].role = "system"
        /\ as_messages[1].content = SYSTEM_PROMPT
        /\ as_messages[Len(as_messages)].role = "user"
        /\ as_messages[Len(as_messages)].content = as_user
        /\ PartsOf(as_messages, "system") = {1}
        /\ PartsOf(as_messages, "user") = {Len(as_messages)}
        /\ Cardinality(PartsOf(as_messages, "memory")) <= 1
        /\ Cardinality(PartsOf(as_messages, "knowledge")) <= 1
        /\ \A i, j \in 1..Len(as_messages) :
             i < j => PartRank(as_messages[i].part)
                      <= PartRank(as_messages[j].part)

\* C10 happens: a call returned a memory block, a knowledge block and history
\* turns between the system prompt and the user message
C10_Witness ==
    /\ as_pc = "done"
    /\ PartsOf(as_messages, "memory") # {}
    /\ PartsOf(as_messages, "knowledge") # {}
    /\ Cardinality(PartsOf(as_messages, "history")) >= 2
    /\ as_messages[Len(as_messages)].content = as_user

\* the history turns of the returned list, as _get_history gave them
IncludedHistory ==
    LET idx == PartsOf(as_messages, "history")
        nth(k) == CHOOSE i \in idx : Cardinality({ j \in idx : j <= i }) = k
    IN  [k \in 1..Cardinality(idx) |->
            [role |-> as_messages[nth(k)].role,
             content |-> as_messages[nth(k)].content]]

\* C11: the history turns assemble() returns are the last turns of what
\* _get_history fetched, in the fetched (chronological) order: with every
\* included turn all newer fetched turns are included, so the budget only
\* drops the oldest.
C11_HistoryIsNewestSuffix ==
    as_pc = "done" =>
        LET inc == IncludedHistory
            off == Len(as_history) - Len(inc)
        IN  /\ off >= 0
            /\ \A i \in 1..Len(inc) : inc[i] = as_history[off + i]

\* C11 happens: the budget cut the fetched history, and the turns returned
\* are some but not all of it
C11_Witness ==
    /\ as_pc = "done"
    /\ IncludedHistory # << >>
    /\ Len(IncludedHistory) < Len(as_history)

(***************************************************************************)
(* src/core/memory/manager.py: MemoryManager._rrf_merge                    *)
(*                                                                         *)
(* A search result is the dict the two SELECTs build; the fields kept are  *)
(* id and confidence, and relevance_score, a key only _rrf_merge adds.     *)
(* Confidence and relevance_score are counted in millionths. A combined    *)
(* score is the exact fraction <<n, d>>: a sum of two reciprocals of       *)
(* integers below 100 is far from any other such sum compared with the     *)
(* precision of a float, so the order of the exact sums is the order       *)
(* sorted() sees, and a + b = b + a holds for floats too.                  *)
(***************************************************************************)
MaxListLen == 3

\* 1.0 in millionths (verify: confidence=1.0)
One == 1000000

\* search: self._rrf_merge(vector_results, fts_results, k=60)
RRF_K == 60

Result(id, confidence) ==
    [id |-> id, confidence |-> confidence, relevance_score |-> Absent]

FracAdd(a, b) == <<a[1] * b[2] + b[1] * a[2], a[2] * b[2]>>
FracGreater(a, b) == a[1] * b[2] > b[1] * a[2]

\* round(score, 6), in millionths
Round6(score) == (2 * score[1] * One + score[2]) \div (2 * score[2])

\* a dict as its items <<key, value>> in insertion order
DictHas(items, key) == \E i \in 1..Len(items) : items[i][1] = key
DictGet(items, key, default) ==
    IF DictHas(items, key)
    THEN items[CHOOSE i \in 1..Len(items) : items[i][1] = key][2]
    ELSE default
DictSet(items, key, value) ==
    IF DictHas(items, key)
    THEN [i \in 1..Len(items) |->
            IF items[i][1] = key THEN <<key, value>> ELSE items[i]]
    ELSE Append(items, <<key, value>>)

OverwriteScore(scores, rid, s) == DictSet(scores, rid, s)

\* scores[rid] = scores.get(rid, 0) + 1.0 / (k + rank + 1)
AddScore(scores, rid, s) ==
    DictSet(scores, rid, FracAdd(DictGet(scores, rid, <<0, 1>>), s))

\* the two for loops, as far as they fill scores
RECURSIVE ScoreLoop(_, _, _, _)
ScoreLoop(results, rank, k, scores) ==
    IF rank >= Len(results) THEN scores
    ELSE ScoreLoop(results, rank + 1, k,
                   AddScore(scores, results[rank + 1].id,
                            <<1, k + rank + 1>>))

\* the two for loops, as far as they fill data: the first overwrites, the
\* second keeps what is there (if rid not in data)
RECURSIVE DataLoop(_, _, _, _)
DataLoop(results, rank, data, keep) ==
    IF rank >= Len(results) THEN data
    ELSE LET result == results[rank + 1]
         IN  DataLoop(results, rank + 1,
                      IF keep /\ DictHas(data, result.id) THEN data
                      ELSE DictSet(data, result.id, result),
                      keep)

ItemsUnsorted(items) == items

\* sorted(scores.items(), key=lambda x: x[1], reverse=True): stable
RECURSIVE SortedDescending(_)
SortedDescending(items) ==
    IF items = << >> THEN << >>
    ELSE LET n == Len(items)
             first == CHOOSE i \in 1..n :
                        /\ \A j \in 1..n :
                              ~ FracGreater(items[j][2], items[i][2])
                        /\ \A j \in 1..(i - 1) :
                              FracGreater(items[i][2], items[j][2])
         IN  <<items[first]>> \o
             SortedDescending([j \in 1..(n - 1) |->
                                 IF j < first THEN items[j]
                                 ELSE items[j + 1]])

_rrf_merge(vector_results, fts_results, k) ==
    LET scores == ScoreLoop(fts_results, 0, k,
                            ScoreLoop(vector_results, 0, k, << >>))
        data   == DataLoop(fts_results, 0,
                           DataLoop(vector_results, 0, << >>, FALSE), TRUE)
        ranked == SelectSeq(SortedDescending(scores),
                            LAMBDA item : DictHas(data, item[1]))
    IN  [i \in 1..Len(ranked) |->
            [DictGet(data, ranked[i][1], Result("", 0))
                EXCEPT !.relevance_score = Present(Round6(ranked[i][2]))]]

MergeIds == {"A", "B", "C", "D"}

\* the lists of at most n results without a repeated id
RankedLists(n) ==
    LET lists == UNION { [1..m -> MergeIds] : m \in 0..n }
    IN  { [i \in 1..Len(l) |-> Result(l[i], One \div 2)] :
            l \in { x \in lists :
                      \A i, j \in 1..Len(x) : x[i] = x[j] => i = j } }

RouterOff ==
    /\ settings = [anthropic_api_key |-> FALSE, openai_api_key |-> FALSE]
    /\ tasks = {}
    /\ budget = [routes |-> 0, faults |-> 0]
    /\ RouterInit

MergeInit ==
    /\ mg_vector \in RankedLists(MaxListLen)
    /\ mg_fts \in RankedLists(MaxListLen)
    /\ mg_merged = << >>
    /\ mg_pc = "call"
    /\ StoreOff
    /\ RouterOff
    /\ SplitOff
    /\ AsmOff
    /\ BrainOff

MergeCall ==
    /\ mg_pc = "call"
    /\ mg_merged' = _rrf_merge(mg_vector, mg_fts, RRF_K)
    /\ mg_pc' = "done"
    /\ UNCHANGED <<mg_vector, mg_fts, storeVars, routerVars, splitVars,
                   asmVars, brainVars>>

MergeNext == MergeCall

SpecMerge == MergeInit /\ [][MergeNext]_vars

IdsOf(results) == { results[i].id : i \in 1..Len(results) }
IdList(results) == [i \in 1..Len(results) |-> results[i].id]

\* what one list contributes to an id: 1/(60 + r + 1) at 0-based rank r,
\* nothing when the list does not contain it
Reciprocal(results, rid) ==
    LET at == { i \in 1..Len(results) : results[i].id = rid }
    IN  IF at = {} THEN <<0, 1>>
        ELSE <<1, 60 + ((CHOOSE i \in at : TRUE) - 1) + 1>>

CombinedScore(rid) ==
    FracAdd(Reciprocal(mg_vector, rid), Reciprocal(mg_fts, rid))

\* C12: for two ranked lists without repeated ids the merge gives every id
\* the sum, over the lists containing it, of 1/(60 + r + 1); the merged
\* list holds every id of either list exactly once and is sorted by
\* non-increasing combined score.
C12_RrfScoresAndOrder ==
    mg_pc = "done" =>
        /\ IdsOf(mg_merged) = IdsOf(mg_vector) \cup IdsOf(mg_fts)
        /\ Len(mg_merged) = Cardinality(IdsOf(mg_merged))
        /\ \A i \in 1..Len(mg_merged) :
              mg_merged[i].relevance_score =
                  Present(Round6(CombinedScore(mg_merged[i].id)))
        /\ \A i, j \in 1..Len(mg_merged) :
              i < j => ~ FracGreater(CombinedScore(mg_merged[j].id),
                                     CombinedScore(mg_merged[i].id))

\* C12 happens: a merge of lists that share an id and each hold an id the
\* other lacks, where the rank order of one list is not the merged order
C12_Witness ==
    /\ mg_pc = "done"
    /\ IdsOf(mg_vector) \cap IdsOf(mg_fts) # {}
    /\ IdsOf(mg_vector) \ IdsOf(mg_fts) # {}
    /\ IdsOf(mg_fts) \ IdsOf(mg_vector) # {}
    /\ mg_merged[1].id # mg_vector[1].id

\* the relevance_score the merge reports for an id
ScoreGiven(rid) ==
    LET i == CHOOSE i \in 1..Len(mg_merged) : mg_merged[i].id = rid
    IN  mg_merged[i].relevance_score

\* C13 happens: the merge of semantic [A,B,C] with lexical [B,D,A] returned
C13_Witness ==
    /\ mg_pc = "done"
    /\ IdList(mg_vector) = <<"A", "B", "C">>
    /\ IdList(mg_fts) = <<"B", "D", "A">>

\* C13 as stated: the merge gives A the score 1/61 + 1/62 and the order
\* A, B, D, C with A and B tied
C13_LiteralMergeAsStated ==
    C13_Witness =>
        /\ IdList(mg_merged) = <<"A", "B", "D", "C">>
        /\ ScoreGiven("A") = Present(Round6(FracAdd(<<1, 61>>, <<1, 62>>)))
        /\ ScoreGiven("A") = ScoreGiven("B")

\* C13 (amended): merging semantic [A,B,C] with lexical [B,D,A] at k = 60
\* gives A 1/61 + 1/63 (A is third in the lexical list), B 1/62 + 1/61,
\* C 1/63 and D 1/62; the merged order is B, A, D, C and no two scores tie.
C13_LiteralMerge ==
    C13_Witness =>
        /\ IdList(mg_merged) = <<"B", "A", "D", "C">>
        /\ ScoreGiven("A") = Present(Round6(FracAdd(<<1, 61>>, <<1, 63>>)))
        /\ ScoreGiven("B") = Present(Round6(FracAdd(<<1, 62>>, <<1, 61>>)))
        /\ ScoreGiven("C") = Present(Round6(<<1, 63>>))
        /\ ScoreGiven("D") = Present(Round6(<<1, 62>>))
        /\ \A x, y \in MergeIds : x # y => ScoreGiven(x) # ScoreGiven(y)

(***************************************************************************)
(* src/core/memory/manager.py: MemoryManager over table agent_memory       *)
(*                                                                         *)
(* Time is counted in days and moves along Timeline, whose points lie on   *)
(* and beyond the 30 and 90 day intervals of prune(); the clock stands     *)
(* still while a call is in progress (a call takes far less than a day).   *)
(* The content of a record is its set of words; the lexical rank and the   *)
(* vector distance are the database's: any order of the selected rows.     *)
(* The category filter is left out (category=None, as every caller under   *)
(* src/ has it).                                                           *)
(***************************************************************************)
MaxOps == 3
MaxMemFaults == 1

\* SQL NULL in a time column
NULL == -1

Timeline == <<0, 30, 91>>
ExpiryDay == 30

\* store(confidence: float = 0.5), and what callers may pass
DefaultConfidence == 500000
ConfidenceInputs == {0, DefaultConfidence, 1500000}
\* update_confidence(memory_id, confidence)
UpdateInputs == {1500000}
\* search(min_confidence: float = 0.0)
MinConfidences == {0, 600000}
Limits == {1, 2}
Contents == {{"ip"}, {"db"}}

\* existing[0].get("relevance_score", 0) > 0.03
DuplicateThreshold == 30000
\* LEAST(confidence + 0.1, 1.0)
BumpStep == 100000
\* confidence * 0.95
DecayPercent == 95
\* confidence > 0.1, confidence < 0.1
LowConfidence == 100000
\* INTERVAL '30 days', INTERVAL '90 days'
DecayAfterDays == 30
DeleteAfterDays == 90

MemoryRow(id, content, confidence, expires_at, embedding) ==
    [id |-> id, content |-> content, confidence |-> confidence,
     verified |-> FALSE, expires_at |-> expires_at, access_count |-> 0,
     last_accessed_at |-> NULL, created_at |-> now, embedding |-> embedding]

Rows(table) == { table[i] : i \in 1..Len(table) }
Ids(table) == { table[i].id : i \in 1..Len(table) }
RowById(table, id) == CHOOSE row \in Rows(table) : row.id = id

\* UPDATE ... SET ... WHERE: the rows in `where` become set[row]
UpdateWhere(table, where, set) ==
    [i \in 1..Len(table) |->
        IF table[i] \in where THEN set[table[i]] ELSE table[i]]
\* DELETE ... WHERE: the rows in `where` go
DeleteWhere(table, where) ==
    SelectSeq(table, LAMBDA row : row \notin where)

NeverExpires(row, t) == TRUE

\* expires_at IS NULL OR expires_at > NOW()
Unexpired(row, t) == row.expires_at = NULL \/ row.expires_at > t

\* to_tsvector(content) @@ to_tsquery(word | word | ...)
Matches(row, query) == row.content \cap query # {}

\* the result dict of a row: "confidence": row["confidence"] or 0.5
ToResult(row) ==
    Result(row.id, IF row.confidence = 0 THEN One \div 2 ELSE row.confidence)

\* ORDER BY over the selected rows: every order the database may give
Orderings(S) ==
    { order \in [1..Cardinality(S) -> S] :
        \A i, j \in 1..Cardinality(S) : order[i] = order[j] => i = j }

\* LIMIT n, [:n]
FirstN(seq, n) == SubSeq(seq, 1, IF n < Len(seq) THEN n ELSE Len(seq))

\* the rows _fts_search and _vector_search select
FtsRows(query) ==
    { row \in Rows(agent_memory) : Matches(row, query) /\ Unexpired(row, now) }
VectorRows ==
    { row \in Rows(agent_memory) : row.embedding /\ Unexpired(row, now) }

Selected(order, limit) ==
    FirstN([i \in 1..Len(order) |-> ToResult(order[i])], limit)

MemCallers == {"m1"}

\* a caller between calls; `before` is the table as the call found it
IdleCall ==
    [op |-> "none", pc |-> "idle", query |-> {}, limit |-> 0,
     min_confidence |-> 0, confidence |-> 0, expires_at |-> NULL,
     fts_results |-> << >>, failed |-> FALSE, results |-> << >>,
     embedding |-> FALSE, id |-> 0, before |-> << >>]

\* existing and existing[0].get("relevance_score", 0) > 0.03
IsDuplicate(existing) ==
    /\ existing # << >>
    /\ existing[1].relevance_score # Absent
    /\ existing[1].relevance_score[1] > DuplicateThreshold

\* search() returns frame.results: to the caller, or into store()
AfterSearch(frame) ==
    IF frame.op = "search" THEN [frame EXCEPT !.pc = "done"]
    ELSE IF IsDuplicate(frame.results) THEN [frame EXCEPT !.pc = "bump"]
    ELSE IF has_vectors THEN [frame EXCEPT !.pc = "embed"]
    ELSE [frame EXCEPT !.pc = "insert"]

\* search lines 67-75: filter by confidence, apply limit, track if any
Merged(frame, merged, failed) ==
    LET results == FirstN(SelectSeq(merged, LAMBDA r :
                              r.confidence >= frame.min_confidence),
                          frame.limit)
        f == [frame EXCEPT !.results = results, !.failed = failed]
    IN  IF results # << >> THEN [f EXCEPT !.pc = "track"]
        ELSE AfterSearch(f)

DegradedToNothing(frame) == Merged(frame, << >>, TRUE)

\* except Exception: merged = fts_results
Degraded(frame) == Merged(frame, frame.fts_results, TRUE)

BumpedUnclamped(confidence) == confidence + BumpStep

\* LEAST(confidence + 0.1, 1.0)
Bumped(confidence) ==
    IF confidence + BumpStep < One THEN confidence + BumpStep ELSE One

\* the three statements of prune() at NOW() = t
prune(table, t) ==
    LET expired == DeleteWhere(table, { row \in Rows(table) :
                       row.expires_at # NULL /\ row.expires_at < t })
        stale   == { row \in Rows(expired) :
                       /\ row.last_accessed_at # NULL
                       /\ row.last_accessed_at < t - DecayAfterDays
                       /\ row.confidence > LowConfidence
                       /\ ~ row.verified }
        decayed == UpdateWhere(expired, stale,
                       [row \in stale |-> [row EXCEPT !.confidence =
                                              (@ * DecayPercent) \div 100]])
    IN  DeleteWhere(decayed, { row \in Rows(decayed) :
            /\ row.confidence < LowConfidence
            /\ row.created_at < t - DeleteAfterDays
            /\ ~ row.verified })

MemoryInit ==
    /\ agent_memory = << >>
    /\ mem_next_id = 1
    /\ now = Timeline[1]
    /\ has_vectors \in BOOLEAN
    /\ mem_call = [c \in MemCallers |-> IdleCall]
    /\ mem_budget = [ops |-> MaxOps, faults |-> MaxMemFaults]
    /\ MergeOff
    /\ RouterOff
    /\ SplitOff
    /\ AsmOff
    /\ BrainOff

\* caller c moves on to `frame`
Frame(c, frame) ==
    /\ mem_call' = [mem_call EXCEPT ![c] = frame]
    /\ UNCHANGED <<now, has_vectors, mergeVars, routerVars, splitVars,
                   asmVars, brainVars>>

\* caller c starts a call
Begin(c, frame) ==
    /\ mem_call[c].pc = "idle"
    /\ mem_budget.ops > 0
    /\ mem_budget' = [mem_budget EXCEPT !.ops = @ - 1]
    /\ Frame(c, [frame EXCEPT !.before = agent_memory])

\* an awaited provider or database call succeeds, or raises
Outcome(ok) ==
    IF ok THEN UNCHANGED mem_budget
    ELSE /\ mem_budget.faults > 0
         /\ mem_budget' = [mem_budget EXCEPT !.faults = @ - 1]

SearchCall(c, query, limit, min_confidence) ==
    /\ Begin(c, [IdleCall EXCEPT !.op = "search", !.pc = "fts",
                    !.query = query, !.limit = limit,
                    !.min_confidence = min_confidence])
    /\ UNCHANGED <<agent_memory, mem_next_id>>

\* store: existing = await self.search(content, limit=1)
StoreCall(c, content, confidence, expires_at) ==
    /\ Begin(c, [IdleCall EXCEPT !.op = "store", !.pc = "fts",
                    !.query = content, !.limit = 1, !.min_confidence = 0,
                    !.confidence = confidence, !.expires_at = expires_at])
    /\ UNCHANGED <<agent_memory, mem_next_id>>

\* search: fts_results = await self._fts_search(query, limit=limit * 2)
FtsSearch(c, order) ==
    LET frame == mem_call[c]
        found == [frame EXCEPT !.fts_results = Selected(order, frame.limit * 2)]
    IN  /\ frame.pc = "fts"
        /\ order \in Orderings(FtsRows(frame.query))
        /\ Frame(c, IF has_vectors THEN [found EXCEPT !.pc = "encode"]
                    ELSE Merged(found, found.fts_results, FALSE))
        /\ UNCHANGED <<agent_memory, mem_next_id, mem_budget>>

\* search: query_embedding = await self.embeddings.encode(query)
SearchEncode(c, ok) ==
    LET frame == mem_call[c]
    IN  /\ frame.pc = "encode"
        /\ Outcome(ok)
        /\ Frame(c, IF ok THEN [frame EXCEPT !.pc = "vector"]
                    ELSE Degraded(frame))
        /\ UNCHANGED <<agent_memory, mem_next_id>>

\* search: vector_results = await self._vector_search(...), then the merge
VectorSearch(c, ok, order) ==
    LET frame == mem_call[c]
    IN  /\ frame.pc = "vector"
        /\ order \in Orderings(VectorRows)
        /\ Outcome(ok)
        /\ Frame(c, IF ok
                    THEN Merged(frame,
                                _rrf_merge(Selected(order, frame.limit * 2),
                                           frame.fts_results, RRF_K),
                                FALSE)
                    ELSE Degraded(frame))
        /\ UNCHANGED <<agent_memory, mem_next_id>>

TrackedTimeOnly(row) == [row EXCEPT !.last_accessed_at = now]

\* SET access_count = access_count + 1, last_accessed_at = NOW()
Tracked(row) ==
    [row EXCEPT !.access_count = @ + 1, !.last_accessed_at = now]

\* access tracking as a read at the start of the call and a write of the
\* value read plus one, instead of one UPDATE statement
TrackAccessFromSnapshot(c, ok) ==
    LET frame == mem_call[c]
    IN  /\ frame.pc = "track"
        /\ Outcome(ok)
        /\ LET returned == { row \in Rows(agent_memory) :
                                /\ row.id \in IdsOf(frame.results)
                                /\ row.id \in Ids(frame.before) }
           IN  agent_memory' =
                 IF ok THEN UpdateWhere(agent_memory, returned,
                                [row \in returned |->
                                   [row EXCEPT !.access_count =
                                      RowById(frame.before, row.id)
                                          .access_count + 1,
                                    !.last_accessed_at = now]])
                 ELSE agent_memory
        /\ Frame(c, IF ok THEN AfterSearch(frame)
                    ELSE [frame EXCEPT !.pc = "raised"])
        /\ UNCHANGED mem_next_id

\* search lines 72-73 and _track_access: one UPDATE ... WHERE id = ANY(:ids);
\* neither _track_access nor search() has a handler around it, so when the
\* statement or the commit raises, nothing is written and the exception
\* leaves search() (and a store() that called it)
TrackAccess(c, ok) ==
    LET frame == mem_call[c]
    IN  /\ frame.pc = "track"
        /\ Outcome(ok)
        /\ LET returned == { row \in Rows(agent_memory) :
                                row.id \in IdsOf(frame.results) }
           IN  agent_memory' =
                 IF ok THEN UpdateWhere(agent_memory, returned,
                                [row \in returned |-> Tracked(row)])
                 ELSE agent_memory
        /\ Frame(c, IF ok THEN AfterSearch(frame)
                    ELSE [frame EXCEPT !.pc = "raised"])
        /\ UNCHANGED mem_next_id

\* store lines 238-240: _bump_confidence(existing[0]["id"]), return the id
BumpConfidence(c) ==
    LET frame == mem_call[c]
        id == frame.results[1].id
    IN  /\ frame.pc = "bump"
        /\ LET hit == { row \in Rows(agent_memory) : row.id = id }
           IN  agent_memory' = UpdateWhere(agent_memory, hit,
                   [row \in hit |-> [row EXCEPT !.confidence = Bumped(@),
                                                !.access_count = @ + 1,
                                                !.last_accessed_at = now]])
        /\ Frame(c, [frame EXCEPT !.pc = "done", !.id = id])
        /\ UNCHANGED <<mem_next_id, mem_budget>>

\* store() without the handler of lines 247-248: a failed encode ends the call
StoreEncodeRaises(c, ok) ==
    LET frame == mem_call[c]
    IN  /\ frame.pc = "embed"
        /\ Outcome(ok)
        /\ Frame(c, IF ok THEN [frame EXCEPT !.pc = "insert",
                                             !.embedding = TRUE]
                    ELSE [frame EXCEPT !.pc = "raised"])
        /\ UNCHANGED <<agent_memory, mem_next_id>>

\* store lines 243-248: embedding = await self.embeddings.encode(content)
StoreEncode(c, ok) ==
    LET frame == mem_call[c]
    IN  /\ frame.pc = "embed"
        /\ Outcome(ok)
        /\ Frame(c, [frame EXCEPT !.pc = "insert", !.embedding = ok])
        /\ UNCHANGED <<agent_memory, mem_next_id>>

\* store lines 250-286: the INSERT, with or without the embedding
Insert(c) ==
    LET frame == mem_call[c]
    IN  /\ frame.pc = "insert"
        /\ agent_memory' = Append(agent_memory,
               MemoryRow(mem_next_id, frame.query, frame.confidence,
                         frame.expires_at, frame.embedding))
        /\ mem_next_id' = mem_next_id + 1
        /\ Frame(c, [frame EXCEPT !.pc = "done", !.id = mem_next_id])
        /\ UNCHANGED mem_budget

update_confidence(c, memory_id, confidence) ==
    /\ Begin(c, [IdleCall EXCEPT !.op = "update_confidence", !.pc = "done",
                    !.id = memory_id, !.confidence = confidence])
    /\ LET instance == { row \in Rows(agent_memory) : row.id = memory_id }
       IN  agent_memory' = UpdateWhere(agent_memory, instance,
               [row \in instance |-> [row EXCEPT !.confidence = confidence]])
    /\ UNCHANGED mem_next_id

verify(c, memory_id) ==
    /\ Begin(c, [IdleCall EXCEPT !.op = "verify", !.pc = "done",
                    !.id = memory_id])
    /\ LET instance == { row \in Rows(agent_memory) : row.id = memory_id }
       IN  agent_memory' = UpdateWhere(agent_memory, instance,
               [row \in instance |-> [row EXCEPT !.verified = TRUE,
                                                 !.confidence = One]])
    /\ UNCHANGED mem_next_id

delete(c, memory_id) ==
    /\ Begin(c, [IdleCall EXCEPT !.op = "delete", !.pc = "done",
                    !.id = memory_id])
    /\ agent_memory' = DeleteWhere(agent_memory,
           { row \in Rows(agent_memory) : row.id = memory_id })
    /\ UNCHANGED mem_next_id

\* prune: three statements in one transaction
Prune(c) ==
    /\ Begin(c, [IdleCall EXCEPT !.op = "prune", !.pc = "done"])
    /\ agent_memory' = prune(agent_memory, now)
    /\ UNCHANGED mem_next_id

\* the call returns to its caller, or its exception reaches the caller
Return(c) ==
    /\ mem_call[c].pc \in {"done", "raised"}
    /\ Frame(c, IdleCall)
    /\ UNCHANGED <<agent_memory, mem_next_id, mem_budget>>

\* time passes between calls
Tick ==
    /\ \A c \in DOMAIN mem_call : mem_call[c].pc = "idle"
    /\ \E i \in 1..(Len(Timeline) - 1) :
          now = Timeline[i] /\ now' = Timeline[i + 1]
    /\ UNCHANGED <<agent_memory, mem_next_id, has_vectors, mem_call,
                   mem_budget, mergeVars, routerVars, splitVars, asmVars,
                   brainVars>>

MemoryNext ==
    \/ Tick
    \/ \E c \in DOMAIN mem_call, query \in Contents, limit \in Limits,
          min_confidence \in MinConfidences :
          SearchCall(c, query, limit, min_confidence)
    \/ \E c \in DOMAIN mem_call, content \in Contents,
          confidence \in ConfidenceInputs, expires_at \in {NULL, ExpiryDay} :
          StoreCall(c, content, confidence, expires_at)
    \/ \E c \in DOMAIN mem_call :
          \E order \in Orderings(FtsRows(mem_call[c].query)) :
              FtsSearch(c, order)
    \/ \E c \in DOMAIN mem_call, ok \in BOOLEAN : SearchEncode(c, ok)
    \/ \E c \in DOMAIN mem_call, ok \in BOOLEAN,
          order \in Orderings(VectorRows) : VectorSearch(c, ok, order)
    \/ \E c \in DOMAIN mem_call, ok \in BOOLEAN : TrackAccess(c, ok)
    \/ \E c \in DOMAIN mem_call : BumpConfidence(c)
    \/ \E c \in DOMAIN mem_call, ok \in BOOLEAN : StoreEncode(c, ok)
    \/ \E c \in DOMAIN mem_call : Insert(c)
    \/ \E c \in DOMAIN mem_call, id \in Ids(agent_memory),
          confidence \in UpdateInputs : update_confidence(c, id, confidence)
    \/ \E c \in DOMAIN mem_call, id \in Ids(agent_memory) : verify(c, id)
    \/ \E c \in DOMAIN mem_call, id \in Ids(agent_memory) : delete(c, id)
    \/ \E c \in DOMAIN mem_call : Prune(c)
    \/ \E c \in DOMAIN mem_call : Return(c)

SpecMemory == MemoryInit /\ [][MemoryNext]_vars

Calls == { mem_call[c] : c \in DOMAIN mem_call }

\* search() has returned frame.results, to its caller or into store(), and
\* store() has not written yet
SearchReturned(frame) ==
    \/ frame.op = "search" /\ frame.pc = "done"
    \/ frame.op = "store" /\ frame.pc \in {"bump", "embed", "insert"}

\* C14: when encoding the query or the vector search raised, search()
\* still returns, and what it returns is the lexical results in their rank
\* order, without those below min_confidence, cut to limit.
C14_DegradesToLexical ==
    \A frame \in Calls :
        SearchReturned(frame) /\ frame.failed =>
            frame.results =
                FirstN(SelectSeq(frame.fts_results, LAMBDA r :
                           r.confidence >= frame.min_confidence),
                       frame.limit)

\* C14 happens: a search whose semantic half raised returned lexical hits
C14_Witness ==
    \E frame \in Calls :
        /\ SearchReturned(frame) /\ frame.op = "search"
        /\ frame.failed
        /\ frame.results # << >>

ExpiredAt(row, t) == row.expires_at # NULL /\ row.expires_at < t

\* C15: no record whose expiry lies in the past at query time is in what
\* search() returns, on the lexical path, the semantic path or their merge,
\* pruned or not.
C15_NoExpiredResult ==
    \A frame \in Calls :
        \A i \in 1..Len(frame.results) :
            /\ frame.results[i].id \in Ids(frame.before)
            /\ ~ ExpiredAt(RowById(frame.before, frame.results[i].id), now)

\* C15 happens: a hybrid search returned a record while a record matching
\* the query, with a vector, expired and not pruned, is in the table
C15_Witness ==
    \E frame \in Calls :
        /\ SearchReturned(frame) /\ frame.op = "search"
        /\ has_vectors /\ ~ frame.failed
        /\ frame.results # << >>
        /\ \E row \in Rows(agent_memory) :
              /\ ExpiredAt(row, now)
              /\ row.embedding
              /\ Matches(row, frame.query)

\* C16: a search() adds exactly 1 to access_count and sets the last-accessed
\* time of every record it returns, and leaves every other record as it
\* was; across any call the access_count of a record never goes down.
C16_AccessTrackedOnReturnedOnly ==
    \A frame \in Calls :
        /\ SearchReturned(frame) =>
              /\ Ids(agent_memory) = Ids(frame.before)
              /\ \A row \in Rows(frame.before) :
                    RowById(agent_memory, row.id) =
                        IF row.id \in IdsOf(frame.results)
                        THEN [row EXCEPT !.access_count = @ + 1,
                                         !.last_accessed_at = now]
                        ELSE row
        /\ \A row \in Rows(frame.before) :
              row.id \in Ids(agent_memory) =>
                  RowById(agent_memory, row.id).access_count
                      >= row.access_count

\* C16 happens: a search returned one record and left another one out
C16_Witness ==
    \E frame \in Calls :
        /\ SearchReturned(frame) /\ frame.op = "search"
        /\ frame.results # << >>
        /\ Ids(agent_memory) \ IdsOf(frame.results) # {}

\* C17: every stored record has its confidence in [0, 1], after any calls
\* of store (with any confidence), bump, prune, verify, update_confidence.
C17_ConfidenceInUnitInterval ==
    \A row \in Rows(agent_memory) :
        row.confidence >= 0 /\ row.confidence <= One

\* C18: when the top hit of store()'s search has a fused relevance score
\* above the threshold, store() adds no record, the hit's confidence
\* becomes min(old + 0.1, 1.0) and its id is returned; otherwise exactly
\* one record is inserted and the new id is returned.
C18_StoreBumpsOrInserts ==
    \A frame \in Calls :
        frame.op = "store" /\ frame.pc = "done" =>
            IF IsDuplicate(frame.results)
            THEN /\ Ids(agent_memory) = Ids(frame.before)
                 /\ Len(agent_memory) = Len(frame.before)
                 /\ frame.id = frame.results[1].id
                 /\ LET old == RowById(frame.before, frame.id).confidence
                    IN  RowById(agent_memory, frame.id).confidence =
                            Min({old + BumpStep, One})
            ELSE /\ frame.id \notin Ids(frame.before)
                 /\ Ids(agent_memory) = Ids(frame.before) \cup {frame.id}
                 /\ Len(agent_memory) = Len(frame.before) + 1

\* C18 happens: a store() found a duplicate whose confidence was so high
\* that the bump had to stop at 1.0
C18_Witness ==
    \E frame \in Calls :
        /\ frame.op = "store" /\ frame.pc = "done"
        /\ IsDuplicate(frame.results)
        /\ RowById(frame.before, frame.id).confidence + BumpStep > One

\* C19: prune() never modifies or removes a verified record, whatever its
\* age, expiry, confidence or last-accessed time.
C19_PruneKeepsVerified ==
    \A frame \in Calls :
        frame.op = "prune" /\ frame.pc = "done" =>
            \A row \in Rows(frame.before) :
                row.verified => row \in Rows(agent_memory)

\* not accessed for 30 or more days; never accessed counts from creation
Stale(row, t) ==
    /\ ~ row.verified
    /\ (IF row.last_accessed_at = NULL THEN row.created_at
        ELSE row.last_accessed_at) + DecayAfterDays <= t

LowAndOld(row, t) ==
    /\ ~ row.verified
    /\ row.confidence < LowConfidence
    /\ row.created_at + DeleteAfterDays < t

\* C20: one prune() deletes every expired record, multiplies by 0.95 the
\* confidence of every unverified record not accessed for 30 or more days
\* (a never-accessed record included), deletes every unverified record
\* below 0.1 that is older than 90 days, and does nothing else.
C20_PruneEffect ==
    \A frame \in Calls :
        frame.op = "prune" /\ frame.pc = "done" =>
            \A row \in Rows(frame.before) :
                LET gone == row.id \notin Ids(agent_memory)
                    decayed == [row EXCEPT !.confidence =
                                   (@ * DecayPercent) \div 100]
                IN  /\ ExpiredAt(row, now) => gone
                    /\ ~ ExpiredAt(row, now) /\ LowAndOld(row, now) => gone
                    /\ ~ ExpiredAt(row, now) /\ Stale(row, now) /\ ~ gone
                          => RowById(agent_memory, row.id) = decayed
                    /\ ~ ExpiredAt(row, now) /\ ~ Stale(row, now)
                       /\ ~ LowAndOld(row, now)
                          => ~ gone /\ RowById(agent_memory, row.id) = row

----------------------------------------------------------------------------
(* LLMBrain.execute_plan, one step per await (SpecPlan).                   *)

\* the longest plan handed to execute_plan
MaxPlanLen == 2

\* plan steps, as the analysis wrote them
PlanSteps == {"restart the service", "clean the logs"}

Plans == UNION { [1..n -> PlanSteps] : n \in 0..MaxPlanLen }

\* str.strip(): both ends
Strip(text) == LStrip(RStrip(text))

\* str.strip(chars) for one character
StripChar(text, ch) ==
    LET keep == { i \in 1..Len(text) : text[i] # ch }
    IN  IF keep = {} THEN << >> ELSE SubSeq(text, Min(keep), Max(keep))

\* str.startswith(prefix)
StartsWith(text, prefix) ==
    /\ Len(text) >= Len(prefix)
    /\ SubSeq(text, 1, Len(prefix)) = prefix

SkipPrefix == <<"S", "K", "I", "P", ":">>

\* the backquote character
BQ == "backquote"

\* what the model may answer to the translation prompt: a command, a command
\* in backticks with whitespace around it, a refusal, a refusal in backticks
T_ls == <<"l", "s">>
T_ls_quoted == <<NL, BQ, "l", "s", BQ, SP>>
T_skip == SkipPrefix \o <<SP, "n", "o">>
T_skip_quoted == <<BQ>> \o T_skip \o <<BQ, NL>>
Translations == {T_ls, T_ls_quoted, T_skip, T_skip_quoted}

\* line 278: strip(), then strip of the backquote, then strip()
Unwrapped(text) == Strip(StripChar(Strip(text), BQ))

\* how the awaited proc.communicate() under wait_for(..., timeout=60) ends:
\* exit status 0, another exit status, the timeout, or an exception
WaitOutcomes == {"exit0", "exit1", "timeout", "error"}

PlanInit ==
    /\ ep_plan \in Plans
    /\ ep_i = 1
    /\ ep_pc = IF ep_plan = << >> THEN "update" ELSE "think"
    /\ ep_cmd = << >>
    /\ ep_exhausted = FALSE
    /\ ep_rc = 0
    /\ ep_results = << >>
    /\ ep_procs = << >>
    /\ ep_audit = << >>
    /\ ep_command = [status |-> "executing", results |-> << >>, writes |-> 0]
    /\ TierOff
    /\ ParseOff
    /\ MoreOff
    /\ RouterOff
    /\ SplitOff
    /\ AsmOff
    /\ MemOff

\* results.append(entry), and the for loop goes on: to the next step, or
\* past the loop to the update of the commands row
Resolve(entry) ==
    /\ ep_results' = Append(ep_results, entry)
    /\ ep_i' = ep_i + 1
    /\ ep_pc' = IF ep_i < Len(ep_plan) THEN "think" ELSE "update"

PlanRest == <<tierVars, parseVars, routerVars, splitVars, asmVars, memVars,
              moreVars>>

\* lines 270-282: think(cmd_prompt, complexity="low") without session:
\* tier 1, whose only candidate is the local model; think() returns its
\* content, or the unavailability text when the call failed
PlanThink(ok, content) ==
    /\ ep_pc = "think"
    /\ LET chain      == Models(settings)[_determine_tier(<< >>, "low")]
           answer     == IF ok THEN content ELSE ExhaustedValue
           actual_cmd == Unwrapped(answer)
       IN  /\ Len(chain) = 1
           /\ IF StartsWith(actual_cmd, SkipPrefix)
              THEN /\ Resolve([step |-> ep_plan[ep_i], status |-> "skipped",
                               command |-> actual_cmd])
                   /\ UNCHANGED <<ep_cmd, ep_exhausted>>
              ELSE /\ ep_cmd' = actual_cmd
                   /\ ep_exhausted' = ~ ok
                   /\ ep_pc' = "spawn"
                   /\ UNCHANGED <<ep_i, ep_results>>
    /\ UNCHANGED <<ep_plan, ep_rc, ep_procs, ep_audit, ep_command>>
    /\ UNCHANGED PlanRest

\* lines 284-288: create_subprocess_shell(actual_cmd) starts the shell, or
\* raises (line 309)
PlanSpawn(ok) ==
    /\ ep_pc = "spawn"
    /\ IF ok
       THEN /\ ep_procs' = Append(ep_procs,
                    [step |-> ep_i, command |-> ep_cmd,
                     exhausted |-> ep_exhausted])
            /\ ep_pc' = "wait"
            /\ UNCHANGED <<ep_i, ep_results>>
       ELSE /\ Resolve([step |-> ep_plan[ep_i], status |-> "error",
                        command |-> << >>])
            /\ UNCHANGED ep_procs
    /\ UNCHANGED <<ep_plan, ep_cmd, ep_exhausted, ep_rc, ep_audit, ep_command>>
    /\ UNCHANGED PlanRest

\* lines 289-297: the process exits and the result is appended, then
\* AuditLog.log is awaited; or wait_for times out (line 307); or
\* communicate or decode raises (line 309)
PlanWait(outcome) ==
    /\ ep_pc = "wait"
    /\ IF outcome \in {"exit0", "exit1"}
       THEN /\ ep_rc' = IF outcome = "exit0" THEN 0 ELSE 1
            /\ ep_results' = Append(ep_results,
                    [step |-> ep_plan[ep_i],
                     status |-> IF outcome = "exit0" THEN "success"
                                ELSE "failed",
                     command |-> ep_cmd])
            /\ ep_pc' = "audit"
            /\ UNCHANGED ep_i
       ELSE /\ Resolve([step |-> ep_plan[ep_i], status |-> outcome,
                        command |-> << >>])
            /\ UNCHANGED ep_rc
    /\ UNCHANGED <<ep_plan, ep_cmd, ep_exhausted, ep_procs, ep_audit,
                   ep_command>>
    /\ UNCHANGED PlanRest

\* lines 300-310: AuditLog.log writes its row and the loop goes on; or the
\* write raises inside the try, and `except Exception` appends an error
\* entry for the step whose result is already in the list
PlanAudit(ok) ==
    /\ ep_pc = "audit"
    /\ IF ok
       THEN /\ ep_audit' = Append(ep_audit,
                    [actor |-> "brain", action |-> "command.execute_step",
                     resource |-> ep_cmd, success |-> ep_rc = 0])
            /\ ep_i' = ep_i + 1
            /\ ep_pc' = IF ep_i < Len(ep_plan) THEN "think" ELSE "update"
            /\ UNCHANGED ep_results
       ELSE /\ Resolve([step |-> ep_plan[ep_i], status |-> "error",
                        command |-> << >>])
            /\ UNCHANGED ep_audit
    /\ UNCHANGED <<ep_plan, ep_cmd, ep_exhausted, ep_rc, ep_procs, ep_command>>
    /\ UNCHANGED PlanRest

\* line 312: Command.update_by_id(cmd_id, status="completed",
\* results=results), which may raise
PlanUpdate(ok) ==
    /\ ep_pc = "update"
    /\ IF ok
       THEN /\ ep_command' = [status |-> "completed", results |-> ep_results,
                              writes |-> ep_command.writes + 1]
            /\ ep_pc' = "log"
       ELSE /\ ep_pc' = "raised"
            /\ UNCHANGED ep_command
    /\ UNCHANGED <<ep_plan, ep_i, ep_cmd, ep_exhausted, ep_rc, ep_results,
                   ep_procs, ep_audit>>
    /\ UNCHANGED PlanRest

\* lines 313-317: Log.create, then execute_plan returns
PlanLog(ok) ==
    /\ ep_pc = "log"
    /\ ep_pc' = IF ok THEN "done" ELSE "raised"
    /\ UNCHANGED <<ep_plan, ep_i, ep_cmd, ep_exhausted, ep_rc, ep_results,
                   ep_procs, ep_audit, ep_command>>
    /\ UNCHANGED PlanRest

PlanNext ==
    \/ \E ok \in BOOLEAN, content \in Translations : PlanThink(ok, content)
    \/ \E ok \in BOOLEAN : PlanSpawn(ok)
    \/ \E outcome \in WaitOutcomes : PlanWait(outcome)
    \/ \E ok \in BOOLEAN : PlanAudit(ok)
    \/ \E ok \in BOOLEAN : PlanUpdate(ok)
    \/ \E ok \in BOOLEAN : PlanLog(ok)

SpecPlan == PlanInit /\ [][PlanNext]_vars

\* the steps the loop is through with
Resolved == IF ep_pc \in {"think", "spawn", "wait", "audit"} THEN ep_i - 1
            ELSE Len(ep_plan)

\* C22: execute_plan goes through the steps in plan order and records
\* exactly one outcome for each, so the results are n entries in plan order;
\* no outcome of a step ends the loop; and the command is marked completed
\* once, after the last step, with those results
C22_OneOutcomePerStep ==
    /\ Len(ep_results) \in {Resolved, Resolved + 1}
    /\ Len(ep_results) <= Len(ep_plan)
    /\ \A k \in 1..Len(ep_results) : ep_results[k].step = ep_plan[k]
    /\ ep_pc \in {"update", "log", "done"} => Len(ep_results) = Len(ep_plan)
    /\ ep_pc = "raised" => ep_i > Len(ep_plan)
    /\ ep_command.writes <= 1
    /\ ep_command.status = "completed" =>
          /\ ep_i > Len(ep_plan)
          /\ ep_command.results = ep_results
    /\ ep_pc = "done" => ep_command.status = "completed"

\* C29: a step whose translation call ended with every model unavailable
\* starts no subprocess: nothing but a translation the model produced is
\* handed to the shell
C29_NoShellWithoutTranslation ==
    \A k \in 1..Len(ep_procs) : ~ ep_procs[k].exhausted

----------------------------------------------------------------------------
(* LLMBrain._parse_json_response, one call (SpecParse).                    *)

\* the longest response text parsed
MaxJsonLen == 5

\* the depth of nested containers at which json.loads gives up with
\* RecursionError (the interpreter's recursion limit, scaled to the short
\* texts of the model)
RecursionLimit == 2

\* response texts are made of brackets, braces, "k" for a key with its
\* colon, "v" for a scalar literal and "x" for prose
JsonAlphabet == {"{", "}", "[", "]", "k", "v", "x"}
JsonTexts == UNION { [1..n -> JsonAlphabet] : n \in 0..MaxJsonLen }

JsonValue(t, of) == [t |-> t, of |-> of]
Parsed(value, next) == [error |-> "none", value |-> value, next |-> next]
Failed(error) == [error |-> error, value |-> JsonValue("none", << >>),
                  next |-> 0]

\* the scanner of json.loads at position pos, `depth` containers deep: a
\* scalar, an empty or one-element list, an empty or one-member object
RECURSIVE ScanValue(_, _, _)
ScanValue(text, pos, depth) ==
    LET At(i) == IF i <= Len(text) THEN text[i] ELSE "end"
        Inside(open, first) ==
            IF depth + 1 > RecursionLimit THEN Failed("RecursionError")
            ELSE LET inner == ScanValue(text, first, depth + 1)
                     close == IF open = "[" THEN "]" ELSE "}"
                 IN  IF inner.error # "none" THEN inner
                     ELSE IF At(inner.next) = close
                     THEN Parsed(JsonValue(IF open = "[" THEN "list"
                                           ELSE "dict", <<inner.value>>),
                                 inner.next + 1)
                     ELSE Failed("JSONDecodeError")
    IN  CASE At(pos) = "v" -> Parsed(JsonValue("scalar", << >>), pos + 1)
          [] At(pos) = "[" ->
                IF At(pos + 1) = "]"
                THEN Parsed(JsonValue("list", << >>), pos + 2)
                ELSE Inside("[", pos + 1)
          [] At(pos) = "{" ->
                IF At(pos + 1) = "}"
                THEN Parsed(JsonValue("dict", << >>), pos + 2)
                ELSE IF At(pos + 1) = "k" THEN Inside("{", pos + 2)
                ELSE Failed("JSONDecodeError")
          [] OTHER -> Failed("JSONDecodeError")

\* json.loads(text): one value and nothing after it
json_loads(text) ==
    LET scanned == ScanValue(text, 1, 0)
    IN  IF scanned.error = "none" /\ scanned.next # Len(text) + 1
        THEN Failed("JSONDecodeError")
        ELSE scanned

\* re.search(r"\{[\s\S]*\}", result): from the first opening brace to the
\* last closing brace after it; NoText when there is no match
BraceBlock(text) ==
    LET opens  == { i \in 1..Len(text) : text[i] = "{" }
        closes == { j \in 1..Len(text) : text[j] = "}" /\ opens # {}
                                          /\ j > Min(opens) }
    IN  IF closes = {} THEN NoText
        ELSE SubSeq(text, Min(opens), Max(closes))

\* lines 256-261
FallbackPlan(result) ==
    [summary |-> SubSeq(result, 1, Min({Len(result), 200})),
     plan |-> <<"Manual review needed (JSON parse failed)">>,
     auto_execute |-> FALSE, severity |-> "medium"]

Returned(value) == [raised |-> "none", value |-> value]
Raised(error) == [raised |-> error, value |-> JsonValue("none", << >>)]

\* the two handlers catch json.JSONDecodeError and nothing else
_parse_json_response(result) ==
    LET direct == json_loads(result)
        block  == BraceBlock(result)
        inner  == json_loads(block)
    IN  IF direct.error = "none" THEN Returned(direct.value)
        ELSE IF direct.error # "JSONDecodeError" THEN Raised(direct.error)
        ELSE IF block # NoText /\ inner.error = "none"
             THEN Returned(inner.value)
        ELSE IF block # NoText /\ inner.error # "JSONDecodeError"
             THEN Raised(inner.error)
        ELSE Returned(FallbackPlan(result))

ParseInit ==
    /\ pj_result \in JsonTexts
    /\ pj_plan = << >>
    /\ pj_pc = "call"
    /\ TierOff
    /\ PlanOff
    /\ MoreOff
    /\ RouterOff
    /\ SplitOff
    /\ AsmOff
    /\ MemOff

ParseCall ==
    /\ pj_pc = "call"
    /\ LET out == _parse_json_response(pj_result)
       IN  /\ pj_plan' = out
           /\ pj_pc' = IF out.raised = "none" THEN "done" ELSE "raised"
    /\ UNCHANGED <<pj_result, tierVars, planVars, routerVars, splitVars,
                   asmVars, memVars, moreVars>>

ParseNext == ParseCall

SpecParse == ParseInit /\ [][ParseNext]_vars

\* C25: whatever the response text, parsing does not raise: it returns the
\* direct parse when the text parses, else the parse of the brace-delimited
\* block when there is one and it parses, else the fallback plan, whose one
\* step is the manual-review notice and whose auto_execute is false
C25_ParsingNeverRaises ==
    pj_pc # "call" =>
        /\ pj_pc = "done"
        /\ pj_plan.raised = "none"
        /\ pj_plan.value =
              IF json_loads(pj_result).error = "none"
              THEN json_loads(pj_result).value
              ELSE IF BraceBlock(pj_result) # NoText
                      /\ json_loads(BraceBlock(pj_result)).error = "none"
              THEN json_loads(BraceBlock(pj_result)).value
              ELSE [summary |-> pj_result,
                    plan |-> <<"Manual review needed (JSON parse failed)">>,
                    auto_execute |-> FALSE, severity |-> "medium"]

----------------------------------------------------------------------------
(* route() with the steps of assemble() inside think() (SpecContext).      *)

\* route() calls in one behaviour of SpecContext, one after the other
MaxContextRoutes == 2

ContextInit ==
    /\ settings = [anthropic_api_key |-> TRUE, openai_api_key |-> FALSE]
    /\ tasks = {TaskOrder[1]}
    /\ budget = [routes |-> MaxContextRoutes, faults |-> 0]
    /\ RouterStarted
    /\ SplitOff
    /\ AsmOff
    /\ MemOff
    /\ BrainOff

\* think() lines 99-102: session_id is set, so assemble(prompt,
\* session_id=session_id, channel=channel) is called, on the assembler built
\* with the default budget (line 80)
ThinkAssembleCall(r) ==
    /\ req[r].pc = "t_assemble"
    /\ as_pc = "off"
    /\ as_max' = DefaultMaxContextTokens
    /\ as_user' = req[r].msg.text
    /\ as_session' = req[r].msg.session_id
    /\ as_messages' = << >>
    /\ as_budget' = 0
    /\ as_history' = << >>
    /\ as_pc' = "call"
    /\ UNCHANGED <<routerVars, splitVars, memVars, brainVars>>

\* assemble() has returned its list to think(), which goes on to
\* _call_with_failover (line 111)
ThinkAssembleReturn(r) ==
    /\ req[r].pc = "t_assemble"
    /\ as_pc = "done"
    /\ as_pc' = "off"
    /\ SetReq(r, [req[r] EXCEPT !.pc = "t_call",
                                !.tier = req[r].start_tier, !.idx = 1])
    /\ UNCHANGED <<settings, channels, connected, allowed_senders,
                   conversations, audit_log, llm_usage, sent, routes>>
    /\ UNCHANGED <<as_max, as_user, as_session, as_messages, as_budget,
                   as_history>>
    /\ UNCHANGED <<tasks, budget, splitVars, memVars, brainVars>>

ContextNext ==
    \/ \E r \in Reqs, m \in MessagePool : RouteStart(r, m)
    \/ \E r \in Reqs : RouteSaveUser(r)
    \/ \E r \in Reqs : ThinkAssembleCall(r)
    \/ AssembleStart
    \/ \E memories \in SearchResults : AssembleMemory(memories)
    \/ \E rows \in KnowledgeRows : AssembleKnowledge(rows)
    \/ AssembleHistory(conversations)
    \/ \E r \in Reqs : ThinkAssembleReturn(r)
    \/ \E r \in Reqs, ok \in BOOLEAN, content \in Responses :
            FailoverAttempt(r, ok, content)
    \/ \E r \in Reqs, written \in BOOLEAN : TrackUsage(r, written)
    \/ \E r \in Reqs : ThinkSaveTurn(r)
    \/ \E r \in Reqs : RouteSend(r)
    \/ \E r \in Reqs : RouteAudit(r)

SpecContext == ContextInit /\ [][ContextNext]_vars

\* the user already sent the same text earlier in this session
SaidBefore(r) ==
    \E i \in 1..Len(conversations) :
        /\ conversations[i].session_id = req[r].msg.session_id
        /\ conversations[i].role = "user"
        /\ conversations[i].content = req[r].msg.text
        /\ conversations[i].route # req[r].msg.id

\* the messages of the assembled context that are the current user message
UserCopies ==
    { i \in 1..Len(as_messages) :
        as_messages[i].role = "user" /\ as_messages[i].content = as_user }

\* C30: the context assemble() returns during route() holds the current
\* user message exactly once: the user turn route() has just persisted is
\* not among its history turns (a text the user had already sent earlier in
\* the session aside)
C30_UserMessageOnce ==
    \A r \in tasks :
        (req[r].pc = "t_assemble" /\ as_pc = "done" /\ ~ SaidBefore(r))
            => Cardinality(UserCopies) = 1

----------------------------------------------------------------------------
(* Two callers of the MemoryManager at once (SpecConcurrent).              *)

\* calls in one behaviour of SpecConcurrent
MaxConcurrentOps == 2

ConcurrentCallers == {"m1", "m2"}

\* one record is already stored, with its vector if there is a provider; the
\* higher starting confidence makes LEAST(..., 1.0) matter after two bumps
StoredConfidences == {DefaultConfidence, 900000}

ConcurrentInit ==
    /\ has_vectors \in BOOLEAN
    /\ now = Timeline[1]
    /\ \E confidence \in StoredConfidences :
          agent_memory = << MemoryRow(1, {"ip"}, confidence, NULL,
                                      has_vectors) >>
    /\ mem_next_id = 2
    /\ mem_call = [c \in ConcurrentCallers |-> IdleCall]
    /\ mem_budget = [ops |-> MaxConcurrentOps, faults |-> 0]
    /\ MergeOff
    /\ RouterOff
    /\ SplitOff
    /\ AsmOff
    /\ BrainOff

SpecConcurrent == ConcurrentInit /\ [][MemoryNext]_vars

\* both callers have finished a call of kind op and not yet returned, and
\* these two calls are the only ones made
BothDone(op) ==
    /\ MaxConcurrentOps - mem_budget.ops = Cardinality(DOMAIN mem_call)
    /\ \A c \in DOMAIN mem_call :
          mem_call[c].op = op /\ mem_call[c].pc = "done"

\* the record as it was before either call wrote: the older of the two
\* snapshots taken at call start (access_count never decreases)
Base(id) ==
    LET snaps == { RowById(mem_call[c].before, id) : c \in
                     { c \in DOMAIN mem_call : id \in Ids(mem_call[c].before) } }
    IN  CHOOSE row \in snaps :
            \A other \in snaps : row.access_count <= other.access_count

Known == { id \in Ids(agent_memory) :
             \A c \in DOMAIN mem_call : id \in Ids(mem_call[c].before) }

\* the callers whose search returned record id, and those whose store()
\* took it for a duplicate and bumped it
ReturnedTo(id) ==
    { c \in DOMAIN mem_call : id \in IdsOf(mem_call[c].results) }
BumpedBy(id) ==
    { c \in DOMAIN mem_call :
        mem_call[c].op = "store" /\ mem_call[c].id = id }

----------------------------------------------------------------------------
(* store() after a failed encode, search() after a failed tracking write   *)
(* (SpecMemory).                                                           *)

\* the rows stored after their embedding could not be generated
WithoutVector(table) ==
    { row \in Rows(table) : has_vectors /\ ~ row.embedding }

\* caller c leaves the await it is suspended in
Leaves(c, pc) == mem_call[c].pc = pc /\ mem_call'[c].pc # pc

C23_TrackFailureNeverFailsSearch ==
    \A frame \in Calls : frame.pc # "raised"

----------------------------------------------------------------------------
(* The split point of one iteration (SpecSplit).                           *)

\* where `sub` occurs wholly inside the first sp_max characters of sp_text
\* (0-based start positions)
OccursAt(sub) ==
    { i \in 0..(sp_max - Len(sub)) :
        /\ i + Len(sub) <= Len(sp_text)
        /\ \A j \in 1..Len(sub) : sp_text[i + j] = sub[j] }

\* the split point by precedence: paragraph break, line break, just after a
\* sentence-ending period, space, hard cut
PrecedencePoint ==
    IF OccursAt(<<NL, NL>>) # {} THEN Max(OccursAt(<<NL, NL>>))
    ELSE IF OccursAt(<<NL>>) # {} THEN Max(OccursAt(<<NL>>))
    ELSE IF OccursAt(<<DOT, SP>>) # {} THEN Max(OccursAt(<<DOT, SP>>)) + 1
    ELSE IF OccursAt(<<SP>>) # {} THEN Max(OccursAt(<<SP>>))
    ELSE sp_max

\* C28: while the rest is longer than the maximum, the iteration splits at
\* the last double newline inside the first max_length characters; if there
\* is none, at the last single newline; if none, just after the last period
\* followed by a space; if none, at the last space; if none, at max_length
C28_SplitPointPrecedence ==
    [][(sp_pc = "loop" /\ Len(sp_text) > sp_max) =>
          /\ SplitPoint(sp_text, sp_max) = PrecedencePoint
          /\ sp_chunks' = Append(sp_chunks,
                                 RStrip(Slice(sp_text, 0, PrecedencePoint)))
          /\ sp_text' = LStrip(Slice(sp_text, PrecedencePoint,
                                     Len(sp_text)))]_vars

\* an iteration has split just after a period although a space came later
\* in the window
C28_Witness ==
    /\ sp_orig = <<DOT, SP, SP, "a", "a">>
    /\ sp_max = 3
    /\ sp_chunks = << <<DOT>> >>
    /\ sp_text = <<"a", "a">>

----------------------------------------------------------------------------
(* _call_with_failover and _track_usage (SpecRoute).                       *)

\* the llm_usage rows written for the route() call of task r
UsageRowsOf(r) ==
    { i \in 1..Len(llm_usage) : llm_usage[i].route = req[r].msg.id }

\* task r is past _call_with_failover
PastFailover == {"t_save", "r_send", "r_audit", "returned", "raised"}

\* C24: when a candidate answered and the usage row could not be written,
\* _call_with_failover returns that candidate's text unchanged and does not
\* raise, and no candidate is attempted after one that answered
C24_UsageFailureKeepsAnswer ==
    \A r \in Reqs :
        LET a == req[r].attempted
        IN  /\ req[r].pc = "t_call" => \A i \in 1..Len(a) : ~ a[i].ok
            /\ (/\ req[r].pc \in PastFailover
                /\ a # << >>
                /\ a[Len(a)].ok
                /\ UsageRowsOf(r) = {})
               => /\ req[r].response = a[Len(a)].content
                  /\ \A i \in 1..(Len(a) - 1) : ~ a[i].ok

C24_Witness ==
    \E r \in Reqs :
        /\ req[r].pc = "r_send"
        /\ Len(req[r].attempted) = 2
        /\ req[r].attempted[2].ok
        /\ req[r].response = LongResponse
        /\ llm_usage = << >>

----------------------------------------------------------------------------
(* LLMBrain._determine_tier, one call on a prompt and a complexity hint.   *)

\* the longest run of filler words appended to a prompt
MaxFiller == 600

\* n words that hold no keyword, each after a space
Filler(n) == [i \in 1..(2 * n) |-> IF i % 2 = 1 THEN SP ELSE "x"]

T_restart_nginx == <<"r", "e", "s", "t", "a", "r", "t", " ",
                     "n", "g", "i", "n", "x">>
T_RESTART == <<"R", "E", "S", "T", "A", "R", "T">>
T_what_is == <<"w", "h", "a", "t", NL, "i", "s">>
T_Audit == <<"A", "u", "d", "i", "t">>
T_explain == <<"e", "x", "p", "l", "a", "i", "n">>
T_prefix == <<"p", "r", "e", "f", "i", "x">>
T_deploy_status == <<"d", "e", "p", "l", "o", "y", " ",
                     "s", "t", "a", "t", "u", "s">>
T_hello == <<"h", "e", "l", "l", "o">>

\* how prompts begin: no keyword, a simple one, a complexity one, both, in
\* either case, inside a longer word, and a two-word keyword broken by a
\* newline
PromptHeads == {<< >>, T_hello, T_restart_nginx, T_RESTART, T_list, T_what_is,
                T_Audit, T_fix, T_explain, T_prefix, T_deploy_status,
                T_fix \o <<SP>> \o T_list}

\* filler lengths around the two thresholds: 76 words are 98.8 tokens and 77
\* are 100.1; 384 words are 499.2 tokens and 385 are 500.5
FillerCounts == {0, 1, 74, 75, 76, 77, 383, 384, 385, 600, MaxFiller}

Complexities == {"low", "high", "auto", "medium"}

TierInit ==
    /\ \E head \in PromptHeads, n \in FillerCounts :
           td_prompt = head \o Filler(n)
    /\ td_complexity \in Complexities
    /\ td_tier = 0
    /\ td_pc = "call"
    /\ PlanOff
    /\ ParseOff
    /\ MoreOff
    /\ RouterOff
    /\ SplitOff
    /\ AsmOff
    /\ MemOff

TierCall ==
    /\ td_pc = "call"
    /\ td_tier' = _determine_tier(td_prompt, td_complexity)
    /\ td_pc' = "done"
    /\ UNCHANGED <<td_prompt, td_complexity, planVars, parseVars, routerVars,
                   splitVars, asmVars, memVars, moreVars>>

TierNext == TierCall

SpecTier == TierInit /\ [][TierNext]_vars

HasComplexKeyword == AnyKeyword(Lower(td_prompt), complex_keywords)
HasSimpleKeyword == AnyKeyword(Lower(td_prompt), simple_keywords)
\* the estimate, 1.3 tokens a word, in tenths of a token
EstimatedTokens10 == 13 * WordCount(td_prompt)
HintFree == td_complexity \notin {"low", "high"}

\* C21: the tier is 1 for the hint "low" and 3 for "high"; otherwise 3 when
\* the prompt holds a complexity keyword or is estimated above 500 tokens,
\* else 1 when it holds a simple keyword and is estimated below 100 tokens,
\* else 2; so a prompt with both kinds of keyword gets 3, a keyword-free
\* prompt of 600 words gets 3, "restart nginx" gets 1, and the tier is
\* always 1, 2 or 3
C21_TierFunction ==
    td_pc = "done" =>
        /\ td_tier \in {1, 2, 3}
        /\ td_complexity = "low" => td_tier = 1
        /\ td_complexity = "high" => td_tier = 3
        /\ HintFree =>
              td_tier = IF HasComplexKeyword \/ EstimatedTokens10 > 5000
                        THEN 3
                        ELSE IF HasSimpleKeyword /\ EstimatedTokens10 < 1000
                             THEN 1
                             ELSE 2
        /\ HintFree /\ HasComplexKeyword /\ HasSimpleKeyword => td_tier = 3
        /\ HintFree /\ td_prompt = Filler(600) => td_tier = 3
        /\ HintFree /\ td_prompt = T_restart_nginx => td_tier = 1

C21_Witness ==
    /\ td_pc = "done"
    /\ td_complexity = "auto"
    /\ td_prompt = T_fix \o <<SP>> \o T_list
    /\ td_tier = 3

----------------------------------------------------------------------------
\* main.py approve_command (lines 308-326): concurrent POSTs of
\* /api/command/{cmd_id}/approve for one cmd_id.  A request is a coroutine;
\* it is suspended in Command.get (line 314) and in Command.update_by_id
\* (line 321), and the lines between two awaits run without interleaving.
\* The background task of a request runs after its response is sent.

MaxApprovals == 3

Approvers == 1 .. MaxApprovals

NoRow == "no row"

\* Command.status values written in this repository (database.py:91,
\* main.py:292, main.py:321, llm_brain.py:312) and the one main.py:317 tests
CommandStatuses == {"pending", "awaiting_approval", "executing", "completed"}

ApproveIdle == [pc |-> "start", cmd |-> NoRow]

\* the row cmd_id names, in any status, or no such row; no request has begun
ApproveInit ==
    /\ ap_cmd \in CommandStatuses \cup {NoRow}
    /\ ap_req = [r \in Approvers |-> ApproveIdle]
    /\ ap_tasks = << >>
    /\ TierOff
    /\ PlanOff
    /\ ParseOff
    /\ RouterOff
    /\ SplitOff
    /\ AsmOff
    /\ MemOff

SetApprove(r, pc, cmd) == ap_req' = [ap_req EXCEPT ![r] = [pc |-> pc, cmd |-> cmd]]

ApproveRest == <<routerVars, splitVars, asmVars, memVars, tierVars, planVars,
                 parseVars>>

\* lines 310-312: get_current_user; 401 without a session
ApproveAuth(r, user) ==
    /\ ap_req[r].pc = "start"
    /\ SetApprove(r, IF user THEN "get" ELSE "401", NoRow)
    /\ UNCHANGED <<ap_cmd, ap_tasks, ApproveRest>>

\* lines 314-320: the awaited Command.get returns the row as it is now; then,
\* without another await, the 404 and 400 tests and add_task
ApproveGet(r) ==
    /\ ap_req[r].pc = "get"
    /\ IF ap_cmd = NoRow
       THEN SetApprove(r, "404", NoRow) /\ UNCHANGED ap_tasks
       ELSE IF ap_cmd # "awaiting_approval"
       THEN SetApprove(r, "400", ap_cmd) /\ UNCHANGED ap_tasks
       ELSE /\ SetApprove(r, "update", ap_cmd)
            /\ ap_tasks' = Append(ap_tasks, [by |-> r, ran |-> FALSE])
    /\ UNCHANGED <<ap_cmd, ApproveRest>>

\* line 321 and database.py:58-67: update_by_id writes status = "executing"
\* into the row if it exists; lines 323-326: the response
ApproveUpdate(r) ==
    /\ ap_req[r].pc = "update"
    /\ ap_cmd' = IF ap_cmd = NoRow THEN NoRow ELSE "executing"
    /\ SetApprove(r, "approved", ap_req[r].cmd)
    /\ UNCHANGED <<ap_tasks, ApproveRest>>

\* the background task of a request that has responded: execute_plan runs
\* the plan (SpecPlan) and writes status = "completed" (llm_brain.py:312)
ApproveRunTask(i) ==
    /\ i \in DOMAIN ap_tasks
    /\ ~ ap_tasks[i].ran
    /\ ap_req[ap_tasks[i].by].pc = "approved"
    /\ ap_tasks' = [ap_tasks EXCEPT ![i].ran = TRUE]
    /\ ap_cmd' = IF ap_cmd = NoRow THEN NoRow ELSE "completed"
    /\ UNCHANGED <<ap_req, ApproveRest>>

ApproveNext ==
    \/ \E r \in Approvers, user \in BOOLEAN : ApproveAuth(r, user)
    \/ \E r \in Approvers : ApproveGet(r)
    \/ \E r \in Approvers : ApproveUpdate(r)
    \/ \E i \in 1 .. MaxApprovals : ApproveRunTask(i)

SpecApprove == ApproveInit /\ [][ApproveNext]_vars

\* C31: for one command id, at most one execute_plan run is ever scheduled,
\* under any interleaving of concurrent approve requests.
C31_AtMostOneRun == Len(ap_tasks) <= 1

----------------------------------------------------------------------------
\* store() twice with the same content, one call after the other (SpecMemory
\* has one caller).  Without an embedding provider search() returns the rows
\* of _fts_search as they are (manager.py:66), which carry "rank" and no
\* "relevance_score" (manager.py:171-186), so the test of manager.py:236
\* reads the default 0.

\* C32: storing the same content twice in sequence leaves one record for it,
\* also when no embedding provider is available (lexical-only mode).
C32_StoredTwiceOneRecord ==
    ~ has_vectors =>
        \A i, j \in 1 .. Len(agent_memory) :
            /\ agent_memory[i].content = agent_memory[j].content
            /\ agent_memory[i].expires_at = NULL
            /\ agent_memory[j].expires_at = NULL
            => i = j

----------------------------------------------------------------------------
\* two store() calls of the same content in flight at once (SpecConcurrent).
\* With an embedding provider and no failing call, a record stored with its
\* vector is found by both searches of a later store() of the same content
\* and scores at least 1/61 + 1/62 > 0.03: stored in sequence it is detected.

\* C33: two concurrent store() calls of a content that is detected as a
\* duplicate when stored in sequence leave one record for that content.
C33_ConcurrentStoreOneRecord ==
    has_vectors =>
        \A i, j \in 1 .. Len(agent_memory) :
            /\ agent_memory[i].content = agent_memory[j].content
            /\ agent_memory[i].embedding /\ agent_memory[j].embedding
            /\ agent_memory[i].expires_at = NULL
            /\ agent_memory[j].expires_at = NULL
            => i = j

----------------------------------------------------------------------------
\* store() in its duplicate path (manager.py:235-240) against a concurrent
\* delete() or prune(): the search, the UPDATE of _bump_confidence and the
\* DELETE of the other call are separate sessions, and the UPDATE ... WHERE
\* id = :id of a row that is gone updates nothing and raises nothing.

StoreReturns(c) ==
    /\ mem_call[c].op = "store"
    /\ mem_call[c].pc \in {"bump", "insert"}
    /\ mem_call'[c].pc = "done"

\* C34: at the moment store() returns, the id it returns is the id of a
\* record in the store, under any interleaving with prune() and delete().
C34_StoreReturnsExistingId ==
    [][\A c \in DOMAIN mem_call :
          StoreReturns(c) => mem_call'[c].id \in Ids(agent_memory')]_vars

----------------------------------------------------------------------------
\* the frame of an inserting store(): store() begins with search(content,
\* limit=1) (manager.py:235), and search() ends with _track_access on what it
\* returns (manager.py:72-73), whether or not store() then takes the result
\* for a duplicate.

SameTrust(old, new) ==
    /\ new.confidence = old.confidence
    /\ new.access_count = old.access_count
    /\ new.last_accessed_at = old.last_accessed_at

\* C35: a store() call that inserts a new record leaves the confidence, the
\* access_count and the last-accessed time of every record stored before
\* the call as they were (checked on the records of another content, which
\* no duplicate test concerns).
C35_InsertChangesNoExistingRecord ==
    [][\A c \in DOMAIN mem_call :
          (/\ mem_call[c].op = "store"
           /\ mem_call[c].pc = "insert"
           /\ mem_call'[c].pc = "done")
          => \A old \in Rows(mem_call[c].before) :
                old.content # mem_call[c].query
                => \E new \in Rows(agent_memory') :
                      new.id = old.id /\ SameTrust(old, new)]_vars

----------------------------------------------------------------------------
\* the candidates one _call_with_failover call goes through
\* (llm_brain.py:127-129): for tier in range(starting_tier, 0, -1), for model
\* in self.models[tier].  Without provider keys self.models[2] and
\* self.models[3] are the list of tier 1 (llm_brain.py:56, 63).

\* C36: within one think() call each candidate model identifier is attempted
\* at most once, for every configuration of the provider keys.
C36_EachModelAttemptedOnce ==
    \A r \in DOMAIN req :
        \A i, j \in DOMAIN req[r].attempted :
            req[r].attempted[i].model = req[r].attempted[j].model => i = j

----------------------------------------------------------------------------
\* the chunks of _split_at_boundaries: a separator found at index 0 of the
\* window, or a window prefix of whitespace only, gives
\* text[:split_at].rstrip() = "" (message_router.py:167).

\* C37: every chunk the splitter produces is non-empty and at most
\* max_length characters long, for any text and any max_length >= 1.
C37_ChunksNonEmptyAndBounded ==
    \A i \in DOMAIN sp_chunks :
        sp_chunks[i] # << >> /\ Len(sp_chunks[i]) <= sp_max

----------------------------------------------------------------------------
\* concurrent route() calls: the Telegram and WhatsApp adapters start one
\* task per incoming message (asyncio.create_task(self._message_callback(msg)),
\* telegram/adapter.py:103-109, whatsapp/adapter.py:108-111), and
\* _send_chunked awaits send_response chunk by chunk without a lock per chat
\* (message_router.py:142-144).

\* the chat the send_response calls of a route() call go to
ChatOfRoute(id) ==
    LET r == CHOOSE r \in Reqs : req[r].msg.id = id
    IN  <<req[r].msg.channel, chat_id(req[r].msg)>>

\* C38: under concurrent route() calls that answer the same chat, no
\* send_response call of another response occurs between the first and the
\* last chunk of a response.
C38_ChunksDeliveredContiguously ==
    \A i, j, k \in DOMAIN sent :
        (/\ i < j /\ j < k
         /\ sent[i].route = sent[k].route
         /\ sent[j].route # sent[i].route)
        => ChatOfRoute(sent[j].route) # ChatOfRoute(sent[i].route)

----------------------------------------------------------------------------
\* prune() run again and again over one unverified record while time passes
\* and nothing reads the record (SpecPrune).  The UPDATE of the decay has
\* WHERE last_accessed_at < NOW() - INTERVAL '30 days' AND confidence > 0.1
\* (manager.py:359-365): for a record never accessed last_accessed_at is NULL
\* and the comparison is not true; the DELETE has confidence < 0.1
\* (manager.py:368-374).

\* the confidence a record was stored with: below the floor, the floor, the
\* default, one bump below the maximum, the maximum
PruneConfidences == {LowConfidence \div 2, LowConfidence, DefaultConfidence,
                     One - BumpStep, One}

\* one unverified, never-expiring record stored at day 0, never accessed or
\* last accessed at day 0
PruneInit ==
    /\ now = Timeline[1]
    /\ \E confidence \in PruneConfidences, accessed \in {NULL, Timeline[1]} :
          agent_memory =
              << [MemoryRow(1, {"ip"}, confidence, NULL, FALSE)
                    EXCEPT !.last_accessed_at = accessed] >>
    /\ mem_next_id = 2
    /\ has_vectors = FALSE
    /\ mem_call = [c \in MemCallers |-> IdleCall]
    /\ mem_budget = [ops |-> 0, faults |-> 0]
    /\ MergeOff
    /\ RouterOff
    /\ SplitOff
    /\ AsmOff
    /\ BrainOff

\* MemoryManager.prune (manager.py:347-380), one run
PruneJob ==
    /\ agent_memory' = prune(agent_memory, now)
    /\ UNCHANGED <<mem_next_id, now, has_vectors, mem_call, mem_budget,
                   mergeVars, routerVars, splitVars, asmVars, brainVars>>

PruneNext == PruneJob \/ Tick

SpecPrune ==
    PruneInit /\ [][PruneNext]_vars /\ WF_vars(PruneJob) /\ WF_vars(Tick)

\* the record is unverified and was created more than 90 days ago
OldUnverified ==
    \E row \in Rows(agent_memory) :
        ~ row.verified /\ row.created_at < now - DeleteAfterDays

\* C39: under repeated prune() runs and with no further access, an
\* unverified record older than 90 days is eventually deleted, for every
\* starting confidence and also when it was never accessed.
C39_StaleRecordEventuallyDeleted == OldUnverified ~> (agent_memory = << >>)

----------------------------------------------------------------------------
\* the token budget of assemble() (SpecAssemble): budget_remaining starts at
\* max_tokens - estimate(SYSTEM_PROMPT) - estimate(user_message) - 500
\* (context.py:90) and every block is appended under the test
\* tokens < budget_remaining, which is then lowered by tokens
\* (context.py:100-102, 110-112, 119-122).

\* the sum of the estimates of msgs[from..to]
RECURSIVE TokensOf(_, _, _)
TokensOf(msgs, from, to) ==
    IF from > to THEN 0
    ELSE estimate_tokens(msgs[from].content) + TokensOf(msgs, from + 1, to)

\* line 90
InitialBudget ==
    as_max - estimate_tokens(SYSTEM_PROMPT) - estimate_tokens(as_user) - 500

\* the sum of the estimates of the messages at the positions S
RECURSIVE SumOver(_, _)
SumOver(msgs, S) ==
    IF S = {} THEN 0
    ELSE LET j == CHOOSE j \in S : TRUE
         IN  estimate_tokens(msgs[j].content) + SumOver(msgs, S \ {j})

\* the estimates of the blocks assemble() appended before it appended block
\* i: the memory and knowledge blocks in list order, the history turns from
\* the newest (the last of the list) to the oldest
AppendedBefore(msgs, i) ==
    LET blocks == { j \in 1..Len(msgs) :
                      msgs[j].part \in {"memory", "knowledge", "history"} }
        earlier == IF msgs[i].part = "history"
                   THEN { j \in blocks : msgs[j].part # "history" \/ j > i }
                   ELSE { j \in blocks : j < i }
    IN  SumOver(msgs, earlier)

\* C40: when the system prompt and the user message fit within
\* max_context_tokens, the estimates of all returned blocks sum to at most
\* max_context_tokens; and a memory block, a knowledge block or a history
\* turn is in the list only if its estimate was below the budget remaining
\* when it was appended.
C40_BlocksWithinBudget ==
    /\ (/\ as_pc = "done"
        /\ estimate_tokens(SYSTEM_PROMPT) + estimate_tokens(as_user) <= as_max)
       => TokensOf(as_messages, 1, Len(as_messages)) <= as_max
    /\ \A i \in 1..Len(as_messages) :
          as_messages[i].part \in {"memory", "knowledge", "history"}
          => estimate_tokens(as_messages[i].content)
                < InitialBudget - AppendedBefore(as_messages, i)

\* C40 happens: a call whose prompt and user message fit returned a memory
\* block, a knowledge block and some but not all of the fetched history,
\* the budget having refused the next turn
C40_Witness ==
    /\ as_pc = "done"
    /\ estimate_tokens(SYSTEM_PROMPT) + estimate_tokens(as_user) <= as_max
    /\ PartsOf(as_messages, "memory") # {}
    /\ PartsOf(as_messages, "knowledge") # {}
    /\ PartsOf(as_messages, "history") # {}
    /\ Len(IncludedHistory) < Len(as_history)
    /\ as_budget > 0

=============================================================================
